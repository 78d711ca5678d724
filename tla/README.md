# A TLA+ model of storm_net

storm_net is an RPC framework in C++: a network thread around epoll, a client
side that turns calls into requests over pooled connections, a server side that
queues what arrives for worker threads, a registry that tells clients where
services are, and the utilities these rest on (timers, logs, configuration,
MySQL). The modules here model its parts from the source, TLC checks them on
small instances, and TLAPS proves the theorems of the `*_proofs` modules for
instances of any size: the slot pool, the socket loop, ServiceProxy and its manager,
StormService, the life cycle of a server, the logs, the registry, timers, the packet
stream and MySqlConn.
`PROJECT.json` lists the runs, the source lines behind every definition, the
hazards, the theorems, and for every property a plausible slip of the code that
makes it fail.

To repeat a run: `tlc -config <cfg> <module>`; to repeat a proof:
`tlapm <module>_proofs.tla`.

## 1. The system

```
   application threads            net thread                    main thread
   -------------------            ----------                    -----------
   stringToProxy()  --m_mutex-->  ServiceProxyManager <-------- callbacks of
   doInvoke()                       updateInNetLoop()            async calls
      |  save, timer, wait        ServiceProxy: onPacket,        (Dispatch)
      |                             onClose, timeouts
      +--- commands, eventfd --->  SocketLoop + SocketPoller     run(), signals,
                                     accept/read/write/close     pid file
   worker threads                  IoBuffer, PacketProtocol
   StormService::loop() <-LockQueue- StormListener, TimeList     Registry update()
      |  onRequest                                               -> MySqlConn
      +--- send/close commands -->  SocketLoop
                       all threads: LogManager -> RollLog / DayLog / HourLog
```

| Component | State it keeps | Operations | Hard about it |
|---|---|---|---|
| Slot pool (`socket_loop.cpp`) | `m_slot`, `m_allocId` | `getNewSocket`, freeing in `forceClose` | lock-free, any thread, counter overflow |
| SocketLoop, SocketPoller | sockets, buffers to write, command queue, eventfd, epoll masks, connect timers | `connect`, `listen`, `send`, `close`; the handlers of `runOnce` | commands handled late; slots and descriptors used again; partial writes; lost wakeups |
| IoBuffer, PacketProtocolLen, SocketHandler | head, tail, data | `handleRead`, `decode`, `onData` | pieces of any size, growth and compaction, edge-triggered reads |
| TimeList | list and map of deadlines | `add`, `del`, `timeout` | clock read before the lock |
| ServiceProxy, ProxyEndPoint | requests, active and inactive endpoints, timers | `doInvoke`, `finishInvoke`, `onPacket`, `onClose`, `doReqTimeOut` | answer, close and timeout race with a caller in the middle of a call |
| ServiceProxyManager | `m_proxys` | `stringToProxy`, `updateInNetLoop` | proxies visible before they are filled |
| StormListener, StormService, StormCmdService, LockQueue | two timer lists, the queue, `m_running` | `onAccept`, `onPacket`, `onClose`, timeouts, `onRequest`, `loop`, `terminateThread` | three kinds of threads to run in, one wait without a loop, limits, stopping |
| StormServer | `g_running`, `g_netRunning`, the pid file | `run`, `mainEntry`, `netEntry`, `killOldProcess`, signal handler | signals between any two steps, several processes |
| RollLog, DayLog, HourLog | the open file, its size and time, the files | `prepareLogFile`, `writeLog` | kill inside a roll, late lines |
| LogManager | `g_syncLog`, `g_logList`, the log thread | `doLog`, `setLogSync`, `finish` | unlocked switch between two modes |
| Registry server | four containers, the table | `Query`, `HeartBeat`, `update` | four mutexes, database failures |
| Timer | `m_nodes`, `m_search` | `addTimer`, `delTimer`, `update` | callbacks change what is walked over |
| CConfig | the tree of sections | `parseString`, `toString` | texts refused half way |
| MySqlConn, SqlJoin | `m_mysql`, `m_bConnected`, `m_oss` | statements, `connect`, `disconnect` | exceptions in the middle of a statement |
| UtilString, UtilEncode | none | `splitString`, `joinString`, `replaceVariable`, `c_unescape`, `urldecode`, ... | ends of texts, separators inside them, signed characters |
| UtilFile | the file system | `getAbsolutePath`, `getFileExt`, `makeDirectoryRecursive`, `listDirectory`, ... | slashes and dots in any place, files in the way |

What makes each correct, in a line: the pool gives a slot to one user; a command
is never lost and acts on the socket it was meant for; bytes and packets arrive
whole and in order; nothing expires late; each call ends exactly once with its
own result; every queued packet is taken and every connection is timed; the pid
file names the server that runs; log lines are in order, in the right file and
not lost; what the registry answers is what was registered; each timer waits
once; what is written is read back; a path leads where its names lead; the database gets the statement that was
meant. The hazards in `PROJECT.json` say at which line each could go wrong.

## 2. Modules

One module per component, with the code's names where TLA+ allows them. An
action is one handler, or one step of a function between two accesses to what
threads share. Where the source holds a mutex from end to end, the function is
one action. `MC*` modules add constants and symmetry for TLC. An operator `BadX`
is a faulty variant of `X` that no specification uses; it is there to see a
property fail. Where a component has several invariants that belong together they
are named parts of one conjunction, with its type invariant.

Where one bound for everything would be too much for TLC, a module takes a
constant set of workloads, of which `Init` chooses one: `Loads` in SocketLoop and
StormService (who may do what, and how often), `Setups` in ServiceProxy (fixed
endpoints or located ones, which kinds of calls), `Places` in Registry (which
service is at which address).

`Client` (with `MCClient`), `MCServer` and `Util` (with `MCUtil`, which adds Config,
Encode and Paths) have components that share no state side by side. Each instantiates its components over disjoint variables; `Init` chooses the component
that moves and the others stay as they started. A property of one component
reads that component's variables only, so interleaving the steps of another
component could not change whether it holds.

* **SlotPool** - `getNewSocket()` instruction by instruction: `FetchAdd`
  (`__sync_add_and_fetch`), `FoldId` (`__sync_and_and_fetch`), `Check`, `Cas`.
  `m_allocId` wraps in two's complement at `MaxId` (0x7fffffff in the code). The
  slot is then filled in (`Publish` for `listen()` and `handleAccept()`;
  `PublishConnect` and `Push` for `connect()`, which queues a command after it has
  stored the status), given back by `forceClose()` (`Release`), and written by
  `connectSocket()` whenever a Connect command for it is handled, whatever its
  status is by then (`ConnectSocket`). `early` collects the slots that were closed
  between a `connect()` and its command: of these `Exclusive` says nothing, since
  the late command may put a slot that another thread has reserved to use or make
  it idle (finding `socket_reuse`).
* **SocketLoop** - the rest of the loop. The net thread takes a batch of events
  from epoll and works through it; masks are kept per descriptor as in
  `SocketPoller`; the kernel hands out any free descriptor. The threads' calls
  are split where the code unlocks (`pushCmd` queues, then writes the eventfd).
  What a peer or the kernel does (arrive, refuse, partial write, EAGAIN, close)
  is a choice. A listener has a backlog, and epoll reports an edge when a
  connection arrives; `handleAccept()` is one `accept()` per step, since threads
  take and free slots in between. The properties after `NoLostCommand` are about behaviours in which
  no socket was closed between its `connect()` and its Connect command (`~early`):
  that case is the finding `socket_reuse`, and after it nothing can be promised.
* **PacketStream** - bytes through `IoBuffer` and `decode()`. Sizes are scaled
  down (capacity 5 instead of 4096 bytes, and so on); the arithmetic is the
  code's, the four length bytes included.
* **TimeList** - `add()` with a clock value read earlier.
* **ServiceProxy** - calls (sync, async, one-way and broadcast), endpoints,
  responses, closes and timeouts over a
  SocketLoop reduced to what **SocketLoop** shows: commands are handled in order,
  and `onConnect()`/`onClose()` follow a `connect()` at most once each. It
  implements **RpcCall**, the abstract promise: a call that is made is over at most
  once, with a result that does not change after that, and succeeds only if the
  service has answered it. The mapping is
  `Call == INSTANCE RpcCall WITH ...`, the property `ImplementsRpcCall`. Properties
  with `~wild` exclude what follows after `onClose()` has read a deleted request,
  the finding `proxy_deleted`; after an erase from the wrong vector (`corrupt`,
  section 5) the net thread does nothing that is modelled.
* **ProxyManager** - `stringToProxy()` in the steps its mutex leaves, with
  `parseFromString()` one endpoint description at a time; reads of a field that
  no one has set yet may give anything.
* **StormService** - listener, queue and services. `load.run` is the `runThread` of
  the service: in the net thread the listener calls it at once; in the main loop
  or in threads of their own services empty the queue. What a request makes a
  service do (`replies`) is what `StormService::onRequest()` and
  `StormCmdService::onRequest()` do: nothing, close, answer, or answer and close;
  the commands go to the loop through one queue, and act on whoever uses the id
  then. A `ConditionVariable` wait is a step of its own; a signal reaches one
  waiting worker or none.
* **ServerLife** - processes that share the pid file and the port; within each a
  main thread and a net thread, and a signal handler that runs between any two
  steps. `StartFails` is a start that `COption::parse()` or `parseConfig()` ends,
  `MainThrows` an exception in the main loop: `run()` returns without
  `terminateService()` and without removing the pid file. `terminateService()` is
  part of one step here, so this module takes it to return; the run `service_stop`
  is about that.
* **RollLog**, **DayLog** (also HourLog, which differs in the period),
  **LogManager** - the log. **RollLog** can be killed between two renames.
* **Registry** - threads and the update loop interleave at each mutex; a
  database statement may fail when `DbFails`. The INSERT of a new service names no
  `heart_beat_time`, and the `create_storm.sql` of the repository has no such column.
  So the time of a new row is open (`RowTimes`): a fixed or the current one, as a
  default of the column may give it (`timed`), or none, with which `parseTime()`
  throws and every load fails. A heartbeat that finds its address known is written
  to the row later; until then the service is in `bare`.
* **Timer**, **Config**, **MySqlConn** - sequential code whose difficulty is what
  a long sequence of legal calls, callbacks or failures leaves behind.
  **Flatten** has the one operator that MySqlConn, PacketStream and RollLog need for
  sequences one behind the other.
* **Strings**, **Encode** - the functions of UtilString and UtilEncode as
  operators over sequences of characters; the one variable of **Encode** is the
  text they are applied to, and its steps enumerate the texts. Characters are
  byte values, compared as signed where the code compares a `char`.
* **Paths** - the functions of UtilFile on paths, and a file system (a tree of
  names) that `makeDirectoryRecursive()`, `saveToFile()` and `removeFile()` change
  and `listDirectory()` reads. `Walk`, which goes along a path name by name, is the
  reference that the path functions are compared with.

Left out of a module that is otherwise complete: spurious wakeups (`ServiceProxy`,
`StormService`), reading of the server's configuration and `daemon()`
(`ServerLife`), callbacks that delete their own timer (`Timer`), texts with a NUL
in `replaceVariable()` (`Strings`).

## 3. Runs

| Run | Module, configuration | Distinct states | Bounds | Checks |
|---|---|---|---|---|
| `slot_pool` | MCSlotPool, MCSlotPool.cfg | 3.7 M | 3 threads, 3 slots, 32-bit counter scaled to -4..3; 1 Connect command for a slot, 1 slot closed before its command | `Exclusive`, `HashInRange`, `NullMeansTaken` |
| `socket_loop` | MCSocketLoop, SocketLoop.cfg | 824 k | 3 slots (one is the eventfd's), 3 descriptors, workloads `Client`, `Stream`, `Server` | `NoLostCommand`, `SocketsApart`, `Armed`, `StreamIsWhole`, `CallbackOrder`, `BacklogSeen` |
| `socket_live` | MCSocketLoop, SocketLoop_live.cfg | 59 k | 2 threads, 2 connects, 1 close | `CommandsEnd` |
| `socket_reuse` (violated) | MCSocketLoop, SocketLoop_reuse.cfg | | 1 slot for users, 2 threads | `IdleIsUnused` |
| `client` | MCClient, Client.cfg | 740 k | 2 requests, 2 endpoints, 2 connections; 2 threads, 2 proxies, 4 strings | `FinishedOnce`, `NoOrphan`, `ReturnsResult`, `EndPointAgrees`, `BroadcastCovers`, `ImplementsRpcCall`; `ManagerInv` |
| `proxy_live` | MCServiceProxy, ServiceProxy_live.cfg | 164 k | 2 requests, 1 endpoint that is fixed or located, 1 connection | `CallsComplete` |
| `proxy_deleted` (violated) | MCServiceProxy, ServiceProxy_deleted.cfg | | 1 synchronous request | `CloseReadsLiveRequest` |
| `service` | MCStormService, StormService.cfg | 289 k | limits of 1 connection and 1 packet; workloads `Busy` and `Refused` (1 worker, 1 or 2 ids), `Stopped` (2 workers), `InMain`, `InNet`; 2 or 3 packets each | `QueueInv`, `TimeoutsCover`, `HeardInOrder`, `AnswersInOrder`, `HandlesWhileUp`, `PacketsTaken` |
| `service_stop` (violated) | MCStormService, StormService_stop.cfg | | workload `Stopped` | `JoinReturns` |
| `registry` | MCRegistry, Registry.cfg | 347 k | 2 services, at 2 addresses or 1; 2 threads, 2 heartbeats, failing database, rows with and without a time | `TablesAgree`, `LeftOutIsSilent`, `BecomesKnown` |
| `server` | MCServer, Server.cfg | 99 k | 3 processes, one of another user, 2 signals; 2 threads, 2 lines of each | `PidFileInv`, `TermStops`; `LinesInv`, `LogThreadWorks` |
| `util` | MCUtil, Util.cfg | 545 k | see below | `MapIsList`, `LateByDelay`; `TimersFire`, `TextIsTree`, `StatementsArrive`, `PacketsArrive`, `FilesKeepLines`, `TextsSurvive`, `PathsLead` |

The conjunctions and their parts, each commented in its module: `SocketsApart` is
`SlotHasOneUser`, `FdHasOneOwner`, `AcceptsOnListener`; `CommandsEnd` is
`CommandsHandled`, `ConnectEnds`; `CallsComplete` is `CallsEnd`, `CallbacksRun`;
`ManagerInv` is
`MapHoldsLive`, `GoodIsShared`, `ReadyHasEndPoints`; `QueueInv` is `RequestsBounded`,
`NoLostPacket`; `TablesAgree` is `KnownIsListed`, `NotForgotten`; `PidFileInv` is
`PidFileNamesServer`, `ExitedIsDown`; `TermStops` is `ExitingIsTrue`, `Stops`;
`LinesInv` is `InOrder`, `NoLineLost`; `LogThreadWorks` is `LinesWritten`,
`QueueWritten`, `FinishReturns`;
`TimersFire` is `EachWaitsOnce`, `OncePerUpdate`, `NoneMissed`, `StoppedIsQuiet`;
`TextIsTree` is `ItemsAreAll`, `WrittenIsRead`; `StatementsArrive` is `SentAsMeant`,
`SentWhereMeant`, `NoHandleLost`; `PacketsArrive` is `NoByteLost`,
`DeliveredAsSent`, `NothingLeft`; `FilesKeepLines` is `LastLines`, `SizeBounded`,
`GivesUpLast` and `InOwnFile`; `TextsSurvive` is `DecodedIsEncoded`,
`EscapesAreRead`, `ParamsSurvive`, `CutAtSeparators`, `RestIsKept`; `PathsLead` is
`AbsoluteLeadsThere`, `PartsMakePath`, `DirectoryIsMade`, `InDirectories`,
`ListIsComplete`.

What the runs show:

* `slot_pool`: a slot that is being filled in belongs to one thread, whatever the
  others do between its instructions and although a counter that overflows is
  folded by several threads, unless the slot was once closed before its Connect
  command was carried out. In a call during which the counter does not overflow,
  `NULL` is returned only when each slot was in use at some time of the call, or
  another thread is about to look at it.
* `socket_loop`, `socket_live`: a command that is queued is seen although the
  eventfd is written after the unlock; slots and descriptors that are used again
  do not inherit masks, timers, bytes or callbacks; a connection that is under way
  comes to an end. A connection that arrives at a listener is seen although the
  event is edge-triggered, unless one before it was turned away (`refused`): then
  it stays in the backlog until another arrives, even when slots become free.
* `client`, `proxy_live`: answer, close and timeout may come at any step of
  `doInvoke()`; each request is finished once, with its own result, and never
  forgotten, even if its answer comes before it was saved. A broadcast, which holds
  `m_epMutex`, goes to the endpoints that are active, and they stay so. A proxy that
  `stringToProxy()` gives out for a good string is shared, is in `m_proxys`, and
  has the endpoints of its string.
* `service`: packets are taken although `pop_front()` waits once without a loop;
  a connection is always under one of the two timers or about to be closed; ids
  that are used again do not mix what the service hears of their users. One
  service object answers a connection in the order of its requests; a late answer
  may reach the next user of an id, and then comes before that user's own. A
  service handles nothing before `init()` or after `destroy()`, wherever it runs -
  except that a service in the net thread gets neither call.
* `registry`: replacing the two maps one after the other, failing statements and
  late heartbeats lose no registered service, unless a statement fails for it. A
  load may well leave out a service that is alive: if its last heartbeat came after
  the flush before the load and waits in `m_updateServices`. But that is the only
  way, once a heartbeat was written to its row: otherwise the last heartbeat that
  refreshed it is older than `activeInterval`. A service that registers gets into
  `m_allService`, if the table gives inserted rows a time and no statement fails for it.
* `server`: starting, failing to start, replacing, stopping and killing keep the pid file with
  the server that runs. `PidFileNamesServer` holds until somebody was told "server
  not running" (section 5 says why), `ExitingIsTrue` if processes are started one
  at a time (`OneAtATime`). A SIGTERM that the handler takes ends its process from
  whatever step (`Stops`), with two exceptions: `mainEntry()` undoes one that comes
  before it, and a net thread that is still in its first loop is joined for ever.
  In its other part, the switch between the two modes of logging keeps the order of
  a thread's lines, and no line is lost by it but in a race of two synchronous
  writers. What is queued is written, by the log thread or before it ends; but a line
  pushed after its last swap and before it reads `g_logExit` stays in the queue.
* `util`: map and list of a TimeList agree and nothing expires later than by the
  delay of a caller; timers wait once and are called once per update; texts
  are written and read back; the database gets whole statements through whole
  connections; packets come out of the buffer as they went in; a rolled log has no
  gap, its files are bounded, and each line is in the file of its day. What is
  encoded is decoded to the same text for any bytes, octal and hexadecimal escapes of
  every byte are read as that byte before any text that does not prolong them,
  parameters of a URL survive
  separators in their keys and values, texts are cut at separators and nowhere
  else. Absolute paths lead where a walk along their names leads, and directories
  are made unless a file is in the way, and listed completely.

**Bounds** are chosen so that the case a property is about happens, and each
mutant in `PROJECT.json` shows that it does: with the slip put in, the same
configuration reaches the violation.
Three threads and three slots let a slot be freed and taken twice while a slow
thread is between two instructions, and `MaxId = 3` overflows the counter several
times in a call. One Connect command for a slot, and one slot that is closed before
its command, are enough to carry a command out on the slot's next user. The number of sockets in SocketLoop's workloads (`births`) is
above the slots or the descriptors free for users, so both are used again. Two
requests suffice for ServiceProxy because requests meet only in the maps, the
endpoint lists and the connection they share. Two workers suffice for a signal
that goes to the wrong one. Three processes let one be started while one exits and
another was killed. In `util`: two keys and two threads (TimeList); three timers of
periods 0 to 2 (Timer); six lines of text, enough for a subsection with a key, a
refused line and a new text (Config); up to two pairs in a statement and two
handles, the second of which shows a lost first one (MySqlConn); a buffer that
holds one short packet but not the largest, so that it grows, is compacted and
carries a tail over (PacketStream); six lines in three files of size three, two
rolls with a kill in one of them (RollLog); four lines within three periods, each
longer than the interval after which an open file is opened again (DayLog);
texts of three out of twenty bytes, on both sides of each limit the code compares
with, the escapes of all bytes in front of them, and texts of six out of the four
bytes of `${a}`, in which the variable is met with two bytes around it
(Encode; parameters of a URL are made of texts of three bytes); paths of five characters, enough for `/../a` and `~/..`, over trees of
four nodes (Paths).

**Symmetry** is declared in `slot_pool`, `socket_loop`, `client` and `util`, for
threads, requests, endpoints and keys that the specification treats alike, and
in no configuration with a liveness property (`ImplementsRpcCall` is a safety
property).

**Deadlock** is checked in the configurations of SlotPool, SocketLoop and
Registry, where the modelled program always has something to do.
`CHECK_DEADLOCK FALSE` stands where the bounded work runs out and the system
rests: the clients, services, logs and utilities, and processes that have all
ended.

**Fairness** is assumed of threads the operating system schedules, never of a
peer, a user or a failure:
* SocketLoop: the net thread goes on (weak fairness of its step), a thread that
  has begun a call finishes it, and a connect timer that is due again and again is
  found due (strong fairness of `Expire`: the timer list is looked at in every
  round, between which the entry may be away and back).
* ServiceProxy: callers, handlers and the main loop go on; a request that waits
  with its timer set is timed out at last (`SF` of `ReqTimeOut`: `timeout()` runs
  every round, and real time passes its deadline).
* StormService: services, the stopping main thread and the handling of commands
  by the loop go on.
* LogManager, ServerLife: every thread that can take a step takes one (in MCServer
  within its part of the behaviour).
* Registry: threads and `update()` go on, and - an assumption about time - the
  intervals pass, so that flush and load come due again and again. A load that could
  succeed again and again does at last (`SF` of `Load`): a database that fails does not
  fail for ever. It asks nothing of a table whose rows do not parse (`~timed`), about
  which `BecomesKnown` promises nothing.

## 4. Proofs

Each `*_proofs` module extends one component. It begins with the inductive
invariant as named parts, each with the reason why it is there; one lemma per
action (or per kind of step) shows that the parts survive it; the theorems follow.
Safety invariants are proved for every value of the constants that the named
assumptions of the component allow. The assumptions are evaluated by TLC in the
runs. They give types to the workloads and, beyond that, say that services are
finitely many (StormService; `signal()` picks one that waits), that `None` is no
process (ServerLife), and that requests and endpoints are told apart
(ServiceProxy). Where a theorem needs more it says so as a hypothesis, named below.

**SlotPool_proofs**: `TypeCorrect`, `ExclusiveHolds`, `HashInRangeHolds`,
`NullMeansTakenHolds`, for any set of threads, any `MaxSocket > 0`, any width of
the counter and any number of commands. `IInv` is `TypeOK`, `TriesLeft`, `HashInRange`,
`Exclusive` and `OneConnect`. `Exclusive` says that an owned slot is reserved and owned
once, unless it is in `early`; it survives the compare-and-swap because that succeeds
on an idle slot only, hence on none that is owned. `connectSocket()`, which stores the
status untested, leaves it alone because of `OneConnect`: for a slot that is not in
`early`, a Connect command that is queued or about to be is the only one, and the slot
is in use, so no thread owns it. `TriesLeft` (a thread in the loop has tries left) is needed to keep the
loop counter in its type, `HashInRange` (the number about to be hashed is not
negative) because the fold and the hash are different steps. For
`NullMeansTaken` there is `SearchInv`: its part `WindowSeen` says that all the
numbers a thread has taken in its call are among the last that were given out, and
that a slot one of them stands for was seen taken or is being looked at - by
whatever thread got the number. A window of `m_maxSocket` consecutive numbers
covers every slot (lemma `WindowCovers`), so a thread that gives up has seen each of
them taken at some time. `NegativeIsNew` and `MaskWraps` are about the calls in which
the counter overflows; there the property says nothing.

**SocketLoop_proofs**, for any threads, slots, descriptors and workloads:

* `CommandsAreSeen` (`NoLostCommand`). `WakeInv` adds to it the types,
  `NotifierApart` (the slot of the eventfd is nobody else's, so nobody closes or
  retypes it) and `BatchDone` (the net thread goes to epoll with nothing left of the
  last batch).
* `BacklogsAreSeen` (`BacklogSeen` and `AcceptsOnListener`), under `KeepsListeners`:
  no workload closes a listener. The hypothesis is needed. `forceClose()` does not
  reset `Socket::type`, and a connection in a former listener's slot is taken for a
  listener (`ConnectionIsNormal` in section 5). The framework never closes its
  listeners; an application may. `ServeInv` says that the slots of listeners and
  those of connections stay disjoint through threads, commands, timers and types
  (`ListenersApart`), and that a listening descriptor is registered for its own slot
  (`ListenInv`).
* `SlotsInOrder`, and from it `EpollWatches` (`Armed`), `PeerGetsAll` (`StreamIsWhole`),
  `HandlersHearInOrder` (`CallbackOrder`) and, with `AcceptsOnListener` and hence under
  `KeepsListeners`, `SocketsStayApart` (`SocketsApart`). `LoopInv` is `WakeInv`, `FdInv` (a
  descriptor is open and has one slot, and a closed one has no mask and no events)
  and, until a socket is closed between `connect()` and its Connect command,
  `Settled`: a reserved slot has one thread that fills it in (`TakingInv`); one that
  connects without a descriptor has one Connect command, pushed or queued
  (`PendingInv`); each open descriptor has an owner (`OwnerInv`); and for each slot
  status, epoll registration, write buffer and callbacks fit together (`SlotInv`).
  The net thread has some 25 ways to step. Lemma `NetKinds` reduces all but five of
  them to what they do to a slot (`Still`, `Closing`, `Opening`, `Hearing`,
  `Streaming`) and to the queue (`Takes`), and the invariant is shown for these kinds.

**ServiceProxy_proofs**, for any requests, endpoints, connections and setups:
`TypeCorrect`, `CompletesOnce`, `NothingForgotten`, `ResultsAreReal`,
`ConnectionsAgree`, `BroadcastsCover`, and `Refinement`: ServiceProxy implements
RpcCall. `IInv` follows a request through the hands it is in. `ReqInv` says that it is in
one place at a time (`OnePlace`: saved, among those `onClose()` fails, or in
`onPacket()`), that whoever is in somebody's hands is unfinished and alive
(`HandsAreFree`), that nobody finishes it before it is saved (`FreshIsOpen`), and that
a synchronous call is back when it is finished (`SyncLives`). `FlowInv` says that
answers come from requests that were sent; `LinkInv` that each connection has one
Connect command, before all else (`ConnectsOnce`, without which a second one could
make `EndPointAgrees` false). `CompletesOnce` comes from `AtMostOnce` and
`HandsAreFree`. `Refinement` maps each step to a step of RpcCall or a stutter: what finishes
a request is `Finish`, because `HandsAreFree` shows it to have been open and
`AnswersAreReal` that the service answered it if it ends well; nothing touches the
result of one that is over.

**StormService_proofs**, for any ids, services, limits and workloads: `QueueIsServed`,
`NoneEscapes`, `HearsInOrder`, `OneAnswersInOrder`, `UpWhenHandling`. Next to the
properties themselves `IInv` has `Hands` (who handles a packet holds one), `UpInLoop`,
`WillKnow` (a service that takes all that waits holds for connected what is
connected: this makes `HeardInOrder` inductive when the listener adds a message
behind others that are not yet taken) and, if there is one service object,
`NumbersRise` (the numbers of requests rise from the peer through the commands and
the service's hand to the end of the queue).

**Client_proofs**, for any threads, strings, descriptions and setups: `ManagerShares`,
which is `ManagerInv`, a statement about both parts of Client; what it says of
ServiceProxy comes from ServiceProxy_proofs. For the manager the inductive invariant
is `Shared`. Its centre is `OwnersInv`: between `Insert` and the end of the parse, or
`EraseProxy`, a proxy has exactly one thread that fills it, and `m_proxys` holds it
under that thread's string. So nobody else writes it, and whoever deletes it knows
its string to be a bad one. `ParseInv` says that the endpoints so far are those of
the descriptions read so far, all of which were accepted; at the end that is
`ReadyHasEndPoints`. `AskedInv` and `TodoInv` are about the net thread, which may read
`m_needLocator` before it is set: a proxy it asks the registry for has a name, or is
marked (`stray`), and the property says nothing of a marked one's endpoints.
`HasInv` keeps what a caller was given under the string it asked for.

**Server_proofs** has the two parts of MCServer, for any processes, users and
signals, threads and lines. `Invariance` is the invariant of both, `TypeCorrect` the
types.

* `PidFileIsRight`, `OneAtATime => PidFileInv`: people start a process when the one
  before has come up or gone. Without that two new processes may save the file one
  after the other. `WaitsForOld` (while a process waits, the file names the one it
  signalled, or that one is down) and `NamesSaved` carry `ExitedIsDown` through the time
  between the signal and the file's removal. `NamesHolder` is `PidFileNamesServer`
  made inductive: nobody is about to save the file while somebody has it. `HasPort`
  lets only one process through `listen()`.
* `LinesArrive`, which is `LinesInv`. `Order` says that a thread's lines rise from
  the file through the batch and the list to the thread. `Switch` is what the unlocked
  change of mode needs: before it nothing is queued, and a thread that still writes
  by itself has nothing queued behind.

**Registry_proofs**, for any services, threads, heartbeats and intervals, with or
without failing statements: `ContainersAgree` (`TablesAgree`), `LeftOutWasSilent`
(`LeftOutIsSilent`). `KnownInv` follows an address from the table through the load
to the two maps that are replaced one after the other. `WayInv` says that a
registered service is in the table or on its way to it. `SilentInv` says that each
refresh of a service is in its rows or among the updates that wait, with no
earlier one behind it, if no statement failed for it and each of its rows had a
heartbeat written to it (`LastReflected`, for services not in `lost` or `bare`): a load
that finds a row inactive then knows that the service was silent or that its refresh
waits for the next flush (`InactiveIsSilent`, `Waits`).

**Util_proofs** has the parts of Util. `UtilInv` is the conjunction of their inductive
invariants, each of the part that moves; `UtilInvariant` proves it, and from it
follow the four theorems after the first item. Each holds for any values of the
constants that `UtilAssumption` gives types to. Beyond types it says that a clock has
a time to show, that a buffer has a capacity and files, their size, lines and
periods are not empty, and that the length of a packet fits its four bytes.

* TimeList: `MapIsListHolds`, `OrderedHolds`, `LateByDelayHolds`, for any keys,
  threads, timeout and clock bound. `IInv` is `TypeOK`, `MapIsList`, `Past`,
  `OrderedButForDelay` and `LateByDelay`. `Past` (no clock value that a thread holds
  lies in the future, and no deadline more than the timeout beyond the clock) bounds
  the deadline of an entry that is added late. The order is kept up to the longest
  delay so far, and since `timeout()` stops at the first entry that is not due, that
  same delay bounds how overdue a later entry can be.
* `UtilTimersFire` (`TimersFire`). `TimerInv` says that the timers that are not
  deleted are the entries of `m_nodes` and `newNodes` together, each once (`Waits`);
  that ids are given out rising and not given again (`Given`); that what `update()`
  has called is no longer in `m_nodes`, but for the one whose callback runs, and
  what is in `newNodes` will be due its period later (`Called`); and that this one
  is still the first of `m_nodes` when its callback returns, whatever that has added
  or deleted (`InCallback`). `NoneMissed` needs `m_nodes` to be ordered: `Insert` puts
  an entry behind the ones of its time (`InsertIs`), and merging `newNodes` back one
  by one is followed by induction over their number.
* `UtilStatementsArrive` (`StatementsArrive`). `CallInv` says that `m_oss` holds the
  text of the clauses before the one that is being written and of the pairs of that
  one so far; with the last pair it is the text meant. `ConnInv` says that
  `m_bConnected` stands for a whole connection to the configured server, and that
  no MYSQL object but `m_mysql` exists; it holds between calls however `connect()` fails.
* `UtilPacketsArrive` (`PacketsArrive`). `StreamInv` says that what the buffer holds,
  followed by the bytes on their way, is the encoding of the packets that are not
  delivered. Storing, compacting and doubling leave the content as it is; what
  `decode()` takes away is the first packet, because the four bytes of its length are
  put together to that length (`LenIsRead`); and a closed connection leaves nothing
  to the next.
* `UtilFilesKeepLines` (`FilesKeepLines`). For RollLog, `RollInv` says that the place a
  roll is about to fill is empty, so that each rename leaves the files, read from
  the oldest, as they were or without the oldest one; that the open file has the size
  of `m_fileSize`; and, as long as nobody was killed, that the files are full up to
  the first empty one (`NoneSkipped`). A kill within a roll leaves a gap among the
  files, which is why `GivesUpLast` says nothing after one. For DayLog, `DayInv`: the
  open file is the one of the period of the last line.

Recursion in these modules is written as functions, and induction over it as a set of
natural numbers that has 0 and with each number the next (lemma `Induct`).

Every property proved is also a property of a run, except `OrderedButForDelay`, the
type invariants and the parts of the inductive invariants.

**Only model-checked**:
* liveness (`CommandsEnd`, `CallsComplete`, `PacketsTaken`, `BecomesKnown`, `TermStops`,
  `LogThreadWorks`): fairness and ENABLED are out of the prover's reach;
* `TextIsTree` (`toString` over trees), `TextsSurvive` and `PathsLead`: texts, trees and
  paths are gone through by recursive operators, about which the prover cannot
  reason;
* the three runs that end in a violation.

## 5. Where the code and its texts disagree

Three runs show such a case; each checks one property, and TLC finds it violated.

* `socket_reuse`, `IdleIsUnused`: `socket_define.h:54` says that an idle slot is not
  in use. `closeSocket()` makes a slot idle while the Connect command of its user is
  still queued, and `connectSocket()` later carries it out on whoever has the slot.
* `proxy_deleted`, `CloseReadsLiveRequest`: a comment at
  `storm_service_proxy.cpp:297` notes that a message may be gone after
  `finishInvoke()`; `onClose()` reads `message->requestId` after it (line 139).
* `service_stop`, `JoinReturns`: the comment at `storm_service.cpp:55` says that the
  worker is woken, several times. There is one broadcast, and a worker that has
  tested `m_running` or handles a packet at that moment waits again afterwards; one
  that has not begun sets `m_running` again (line 62). `terminateThread()` then waits
  for ever.

The following formulas stand in the modules, and no run has them: they state what
the repository says and are false of the model. To see a trace, put the formula
into the configuration named, as its only property.

* `ConnectionIsNormal` (SocketLoop; SocketLoop.cfg with a workload that both listens
  and connects): `connect()` does not set `Socket::type` and `forceClose()` does not
  reset it, so a connection in the slot of a former listener is of type
  `SocketType_Listen` and is given to `handleAccept()`.
* `MovesWithinList` (ServiceProxy; Client.cfg): for an endpoint that is inactive
  already, `moveToInactive()` passes an iterator into `m_inactiveEndPoints` to
  `m_activeEndPoints.erase()` (`storm_service_proxy.cpp:394`). The properties of
  ServiceProxy are about behaviours in which this has not happened.
* `M!ReturnsProxy`, `M!AsksIfNeeded` (ProxyManager; Client.cfg, through a definition
  in MCClient): a proxy is put into `m_proxys` before it is parsed. A second caller
  may get one that the first deletes when the parse fails
  (`storm_proxy_manager.h:49`), and the net thread may read `m_needLocator` before
  it is set and ask the registry for a proxy with fixed endpoints
  (`storm_proxy_manager.cpp:40`).
* `ConnectionLimit`, `QueueLimit` (StormService; StormService.cfg):
  `server_config.h:22-23` calls the settings the largest number of connections and
  the largest length of the queue. `onAccept()` counts only connections that have
  sent a packet (`storm_listener.cpp:28`), and `onPacket()` compares with `>` before
  it pushes (line 78).
* `R!SpaceBounded` (RollLog; Util.cfg): `server_config.h:50` calls the setting the
  largest space of the rolling log; it bounds each file.
* `NetThreadEnds` (ServerLife; Server.cfg): if the net thread is in `runOnce()`
  between `run()` setting `g_netRunning` and `terminateNetThread()` clearing it, it
  stays in its first loop and the join never returns (`storm_server.cpp:218`).
* `ExitingIsTrue` with `OneAtATime = FALSE` (ServerLife): `mainEntry()` sets
  `g_running = true` (`storm_server.cpp:142`), which undoes a SIGTERM that came after
  the handler was installed; the sender waits for ever.
* `NotRunningIsTrue` (ServerLife; Server.cfg): the answers to EPERM and ESRCH
  are swapped (`storm_server.cpp:374`): a server of another user is reported as not
  running and its pid file removed.
* `L!LastLineWritten` (LogManager; Server.cfg, through a definition in MCServer): a line
  that is queued before `finish()` is called is written. `run()` logs "Server Normal
  Exit" and calls `finish()` next (`storm_server.cpp:130`); if that falls between a swap
  of the log thread that finds nothing and its reading of `g_logExit`
  (`util_log.cpp:345-352`), the thread ends and the line is never written.
* `WaitEnds` (ServerLife; Server.cfg): `killOldProcess()` waits for the pid file to
  go (`storm_server.cpp:368`). An old process that is killed, throws or fails after
  the signal does not remove it, and the wait does not end.
* `F!ExtOfAnyPath` (Paths; Util.cfg, through a definition in MCUtil): in a path
  without a slash `rfind('/')` is `npos`, larger than any position, so `getFileExt()`
  finds no extension (`util_file.cpp:169`); `replaceFileExt()` tests for it.

## 6. Not modelled

* The letters of the command line (`getopt_long` in `util_option`), the settings
  that `parseServerConfig()` reads one by one (they are constants here), `daemon()`.
* Formatting and parsing of numbers and dates (`tostr`, `strto`, `format`,
  `util_time`), upper and lower case, `parseHumanReadableSize()`: calls of the C++
  library whose result no property depends on.
* The RPC generator: it prints C++ text from a `.proto` file and keeps no state
  between two files. `src/old` (not built into the library), protobuf, the examples.

Renames that fail in a roll (`prepareLogFile()` ignores what `moveFile()` returns) are
not modelled. Inputs that the framework's own `encode()` does not produce are
outside PacketStream.

Left out of the hazards for want of a text that says what ought to happen: data
read together with the end of a stream is dropped with the connection; a callback
that deletes its own timer, or calls back into the TimeList it expired from;
`joinConfig()` clears the configuration before it writes it out; a synchronous call
made in the net thread waits for itself; `handleAccept()` tries again at once when
`accept()` fails for want of descriptors, and the net thread does nothing else
until there is one (`socket_loop.cpp:135`).

## 7. Plan

Done: the slot pool, the loop with its listeners, the packet stream, TimeList, the
client side with broadcasts and its abstract specification, the server side with
services in any thread, the life cycle, the logs, the registry, timers,
configuration, MySQL, strings, encodings and paths. Proved: every safety property
that a run checks, but for the three of section 4 that are about recursive
operators, and that ServiceProxy implements RpcCall.

Next, in this order:
1. Compose: SocketLoop with ServiceProxy in place of the reduced loop, with the
   refinement that the reduction is an abstraction of SocketLoop.
2. Write the functions of Strings, Encode and Paths as recursive functions, and
   prove that decoding an encoded text gives the text.
