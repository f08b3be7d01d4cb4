# iMonPlatform: specifications, model checking and proofs

iMonPlatform is a distribution and authentication product for Windows, written
in C++. At this commit its client and server programs are empty Qt skeletons;
the logic is in `src/libs/commonLibs`: a networking library (an index for every
socket, packets with message numbers, a "server busy" protocol), a logging
library with two worker threads, and utilities. This directory holds TLA+
modules for that logic, TLC configurations for small instances, and TLAPS proofs
for instances of any size. `PROJECT.json` lists components, runs, mutants, the
lines each definition stands for, findings, hazards and theorems.

To check a run: `tlc -config pipelines.cfg MCPipelines`. To check the proofs
of a module: `tlapm ConcurrentQueue_proofs.tla`.

## 1. Inventory

| Component | State | Operations | What is hard |
|---|---|---|---|
| `CConcurrentQueue` (cmnWinUtils.h) | queue, `_isStop`, mutex, condition variable | `push`, `pop`, `stopAllPop` | wakeups, stop while waiting, stale packet after a stopped `pop` |
| `CNetworkCommunicator` | `_mapIndexToSocket`, `_socketIndex`, acceptor | `connectTo`, `bind_and_accept`, `socket_accept`, `disconnect`, `disconnectAll`, `receiveDisconnectNotify` | index looked up in one critical section and used in another; slots called inside a critical section |
| `CGPBManagerV2`, connections | `_setConnectionedSockets`, sent maps, response maps | `receiveNewConnection`, `receiveDisconnection`, `sendPacket` to all | callbacks run on any thread; two locks in two orders |
| `CGPBManagerV2`, packets | two queues, `_isBusy`, `_globalMessageID`, sent and response maps | `sendPacket`, `receivePacketWait`, `dispatchSendMessage`, `dispatchReceiveMessage`, `queuePacketFromDataBuffer` | a flag shared by readers and sender without a lock, resends, timeouts |
| Logger, messages | context pool, `_queue`, `_fileWriteQueue`, `_isInit`, `_isExit` | `LM_...` macros, `writeData`, `WriteData`, both workers, `StopLogger` | a pooled buffer shared by three threads, order over two queues, shutdown |
| Logger, tree | `_mapNameToLogger`, `_vecChilds`, configurations, callbacks | `GetLogger`, `SetLoggerConfiguration`, `AddCallback`, `RemoveCallback` | the shape depends on the order of first use |
| Logger, files | `_mapFileNameToDest`, current file, date and index of every logger, the log directory | `WriteData`, `MakeLOGFile`, `GetFile`, `CheckFileExist`, `CheckFileSizeAndDate`, `CheckOldFileExist` | several loggers on one file, splits by size and day, a file that cannot be made, what an earlier process left |
| `CCommonSocket` | read buffer, body size, callbacks | `startReadHeader`, `readHeader`, `readBody`, `sendPacket` | bytes in pieces, half-written packets, empty bodies, slots registered while it reads |
| `CIoServicePool` | next index, services and their threads, singleton | `getNextIoService`, `run`, `stop`, `getInstance` | unsynchronised wrap-around; one pool for all communicators |
| `CXMLMapperV2` | document, file path, cache of compiled queries, `_cs` | `LoadFile`, `SaveFile`, `RefreshXML`, typed getters and setters, node accessors | exceptions inside the critical section; loads, reads and writes without it |
| `CDownloaderByAPI` (cmnWinUtils) | address, result, two events | `DownloadToFile`, worker thread, progress callback | a timeout that races a late result |
| Services (cmnWinUtils) | the service control manager's | `StartServiceFromName`, `StopServiceFromName` | polling while the service changes |
| Date and time | none | `GetTimeValueFromFormat` and pure functions | a parser of formats with fall-through |
| Formatter, strings, conversions | none | pure functions | boundaries |
| PC information, rest of the Windows utilities | the system's | single system calls | - |

How they interact. An application thread calls the manager; the manager's
sender and dispatcher threads take packets from two `CConcurrentQueue`s. The
manager registers slots with the communicator and a read callback with every
socket. The communicator runs the new-connection slots in `connectTo` or on the
io_service thread that accepts, and the disconnection slots in `disconnect` (on a
user's thread, or on the io_service thread whose read failed) and in
`disconnectAll`. All of them log; the logger depends on none of them.

What correctness means, component by component: the queue is a FIFO of which
each packet is handled once; a socket has one index, and an operation started
for a connection only touches that connection; a request is in one place at a
time and its answer reaches its caller; log messages reach the file once and in
order, in a file of the right day and within a message of its size, and are lost
only where no file can be made; a logger's configuration reaches the loggers below it and no others;
bytes on a connection become the packets that were sent; io_services are dealt
in turn and serve whoever was given them; a configuration file is not destroyed
by its own mapper; what a wait or a poll returns is about what was waited for;
and every call returns. Section 6 lists what does not hold.

## 2. Modules and the code

| Module | Code | Notes |
|---|---|---|
| `FifoQueue` | (abstract) | append, and remove the oldest: what the packet queue and a connection promise |
| `ConcurrentQueue` | `CConcurrentQueue`, worker loop and destructor of `CGPBManagerV2` | `pop` in six steps: loop test, lock, emptiness test, stop test, take, handle; `push` and `stopAllPop` in two, change and notify |
| `NetworkCommunicator` | CNetworkCommunicator.cpp/.h, error paths of commonSocket.cpp | one critical section per step, except the two that last: `disconnectAll`, and the loop of `deregisterSocket` |
| `GPBConnections` | connection part of CGPBManagerV2.h | EXTENDS `NetworkCommunicator`: a communicator step that runs a slot is taken together with the slot's last step; a reader looks up the sent map of its index and uses it in two steps |
| `GPBManager` | packet part of CGPBManagerV2.h | uses the FIFO that `ConcurrentQueue` is shown to implement; the server is external and numbers its own packets, which may bear the numbers of requests of this side |
| `LogPipeline` | cmnLogger.cpp/.hpp, `CRoundRobinAllocator`, `CSharedQueue` | one log file; `isSynchronousOp` and `isUseBatchFileWrite` chosen in `Init` |
| `LoggerTree` | `CLogFactory::GetLogger`, `CLogger` | a name is the sequence of its parts; `LowerOf` gives a part in lower case, for the `wcsicmp` that skips a child |
| `LogFiles` | `CLogUtil::WriteData` and what it calls | a file is its owner, day and index; a day is the unit of time; a message has any length up to `MsgMax`; the clock, failures and restarts are actions |
| `CommonSocket` | commonSocket.cpp, `encode_header` and the framing of the sender | bytes are digits to a base, so a header is encoded and decoded as in the code; the wire hands over any prefix; a failed write leaves a part of a frame on it and the sender goes on; an accepted socket reads before its slot is there |
| `IoServicePool` | IoServicePool.cpp/.hpp, constructor and destructor of `CNetworkCommunicator` | `getNextIoService` in its four accesses to the index |
| `XMLMapper` | commonXMLMapperV2.cpp/.h | the document is the configuration or empty; a query gives nodes, gives a value or does not parse; load and refresh in two and three steps; a call that reads or writes nodes while another thread changes them may crash |
| `Downloader` | `CDownloaderByAPI` | the two auto-reset events, the result and the address shared with the threads of earlier downloads |
| `WinService` | `StartServiceFromName`, `StopServiceFromName` | the service and other programs change it between any two queries; a failed query leaves the status as it was |
| `DateTime` | `GetTimeValueFromFormat` | read against what `wcsftime` writes; a character of the text knows its field and place, not its digit; a text longer than the buffer is empty |

`MC<module>` instantiates a module for TLC, `<module>_proofs` proves theorems about it;
`Library_proofs` does so for `CommonSocket`, `IoServicePool`, `XMLMapper`, `Downloader`,
`WinService` and `DateTime`. `MCLibrary` takes the parts that share no state
(`CommonSocket`, `IoServicePool`, `XMLMapper`, `Downloader`, `WinService`, `DateTime`,
`LoggerTree`) together, and `MCPipelines` the queue and the logger's way of a message: a
variable says which of them a behaviour exercises. The names of `ConcurrentQueue` begin with
`Queue` (`QueueInit`, `QueueNext`) so that both can be extended. A definition with a suffix
(`Take_peek`, `NewFile_opened`) is a plausible mistake in the definition it is named after;
`PROJECT.json` says which property detects it.

State and actions keep the source's names. A thread's position is a `pc`
variable (`spc` inside a slot, and so on); its labels are the places where
another thread can act. Variables the comments call history record what the
properties talk about and are read by no guard but the bounds. Critical sections that contain
no call out of the class are one step; `CRITICAL_SECTION` is recursive and a
section entered twice by one thread is entered once. Message contents,
addresses and formatted text are identities.

What the models take for granted:

* The io_service threads run handlers of different sockets in parallel and of
  one socket in sequence, as the read chain in `CCommonSocket` does.
* One manager exists. Its callbacks use a function-local static.
* The application switches the busy protocol on or off, and registers its slots
  for packets, before it connects.
* A peer numbers the packets it sends unasked from 1, as this side does, and uses
  each number once; which numbers coincide is left open.
* `InitLogger` has run, and `StopLogger` is called when no thread is logging, as
  the header asks.
* One thread at a time changes configurations and callbacks of loggers: these
  functions do not lock. In `LogFiles` a configuration may be given while a
  message is written; the properties then stop (`torn`). `fputws` does not fail.
* A process that ends does so through `StopLogger`: `LogFiles` restarts between
  messages, with all files closed and left on disk.
* A write of asio that returns without an error has handed all bytes to TCP, and
  TCP loses and reorders none; a connection breaks at any byte. A write may fail
  after any part of a frame without the connection being broken.
* `URLDownloadToFile` may take for ever; the thread that called it cannot be
  interrupted.

### Refinements

* `ConcurrentQueue` implements `FifoQueue` with the state it has (`FifoSpec`), and
  `GPBManager` uses the abstract queue for the two queues of the manager.
* `CommonSocket` implements `FifoQueue` under the mapping that takes the packets
  sent whole and not yet read as the queue (`FramesInOrder`), up to the first
  write that stops inside a frame: the pieces are not visible, nor is what a
  failed write appends until the packets before it have been read.
* `GPBConnections` implements `NetworkCommunicator` (`CommunicatorSpec`).

## 3. Runs

| Run | States | Expected | Question |
|---|---|---|---|
| `pipelines` | 173,836 | pass | Is the queue a FIFO, is a packet handled once, does every packet get a worker, when does the destructor return? Do log messages reach the file once and in order, do calls return? |
| `comm_index_race` | - | violation | Does `connectTo` return its own socket's index with two threads? |
| `conn_server` | 1,674,141 | pass | Do the sockets of a server keep one index each, are their slots run once, what brings a lost connection's sent map back, and do the manager's callbacks fit into the communicator? |
| `conn_client` | 39,370 | pass | Are connections and calls of a client handled to the end? |
| `conn_deadlock` | - | violation | Does `disconnectAll` return? |
| `gpb_pipeline` | 711,607 | pass | Does a request get its answer, with and without busy answers, and among packets the peer numbers itself? |
| `gpb_busy_race` | - | violation | Is a busy packet always discarded? |
| `gpb_resend` | - | violation | Is a packet the server was too busy for sent again after the interval? |
| `log_stop` | - | violation | Does `StopLogger` return? |
| `logger_follow` | - | violation | Does a configuration reach all loggers below? |
| `log_files` | 8,593,783 | pass | Are files new, of the right day and within a message of their size, and when do messages get lost? |
| `library` | 171,958 | pass | Packets out of bytes, services in turn, configurations, downloads, services, dates, and which loggers a configuration or callback reaches |

Bounds, and why they are enough for the cases that matter:

* `pipelines`, queue: two workers, two producers, three packets. A worker can be woken,
  lose the packet to the other and wait again, and a stop can meet every
  position of both.
* `conn_server`, `conn_client`: two sockets, one user, and the acceptor of the
  server: two connections that break, are accepted or are closed while the user
  broadcasts, disconnects or connects. `LongMax` is 4, so `_socketIndex` does not
  wrap before the sockets run out; the index properties are stated until it
  wraps. `conn_client` has no `disconnectAll`, whose deadlock is the subject of
  `conn_deadlock`.
* `gpb_pipeline`: one connection, two application threads, two dispatchers, two
  requests, two busy answers, one packet the server pushes, under a number of
  its choice: a busy answer can meet the other request in every stage, and the
  push can be taken for the answer to either. `gpb_busy_race` has two connections,
  which is what the race takes; `gpb_resend` one, with one busy answer.
* `pipelines`, logger: two callers, two contexts, three messages, one line per round
  of the file worker: the pool wraps, a caller waits for the context whose turn
  it is while the other is free, and lines stay behind in the file's queue. All
  four combinations of synchronous and batch writing.
* `log_files`: two loggers, two threads, three messages, years of two days, messages of one
  or two units, files limited to two and kept one day. Both kinds of `isSplitByLogger` and
  `isSynchronousOp`; the uninitialised date is below or above every day of a year. A file
  fills with one message or two, passes its limit by a unit, a day passes between any two
  steps, and after the second day comes a new year.
* `library`, one part at a time:
  * socket: three calls of `sendPacket` with one of three bodies, the empty one
    among them, over digits to base 2 and headers of two; each may fail after any
    byte, and the slot is there from the beginning or comes at any time;
  * pool: two services, two threads, two communicators, each service dealt up to
    twice, so the index wraps with both threads inside;
  * XML: two threads, three calls, one query of each kind: a call may meet a
    setter that threw, a refresh that failed or one under way, and a save may
    come before the load;
  * download: three downloads with one progress report each, so that two threads
    may be left behind;
  * service: three seconds of polling, four changes of the service;
  * date: all formats of up to three items out of seven directives and two
    literals, one of which is a directive's letter; midnight, morning, noon and
    afternoon; a buffer of eight characters, which three fields with a year just
    exceed;
  * tree: `root`, `ROOT`, and the chain of `/a/b` with the logger of the empty
    name, in every order of first use, with three changes.

Deadlock checking is off throughout: a bounded run ends when its messages,
sockets or changes are used up, and the stopped logger and the destroyed
manager have nothing to do.

Symmetry over sockets or loggers is used only in runs without liveness
properties.

### Fairness

Threads that are ready to run are run: weak fairness for each thread's steps.
Where a thread needs a critical section that others enter again and again,
strong fairness is assumed for it (the steps of the communicator's and the
manager's threads; `GetLogger` in the logger): a Windows critical section is not
first-come first-served, but a thread that is woken tries again. No fairness is
assumed for what the outside decides: the application's calls, connections that
break, busy answers and pushes of the server, spurious wakeups, `StopLogger`.
The server answers in the end (`gpb_pipeline`, `gpb_resend`), and it need not send
anything unasked; a closed socket's read fails
(`conn_client`). In `library` the reader of a socket, the threads of the pool, the
threads inside a call of the mapper, and the callers that wait for a download or
a service go on; senders, broken connections, the download itself and the service
need not. `log_files` has no liveness property.

## 4. Proofs

All proofs are for any number of threads, sockets, packets, messages and names, under the
named assumptions on the constants (constants that stand for nobody or nothing are apart
from the rest, thread names do not coincide, bounds are naturals, the threads that write log
files are finitely many, a body's size fits into the header, hours are below 24, `%` is not
a literal).

* `ConcurrentQueue_proofs`. The inductive invariant `QueueInv` says: `pop` keeps
  the mutex from its emptiness test to its removal, so the queue is not empty
  when it takes; packets in the queue and taken packets are distinct; and what a
  worker holds is taken, unhandled and nobody else's, unless the owner's
  `_isExit` is up. The last part needs that `_isExit` is set before `_isStop`
  (`OwnerInv`). `Invariance`, and from it `StalePacketsNotHandled`
  (`HandledOnce`) and `QueueImplementsFifo`, a step-by-step refinement of
  `FifoQueue` in which only `Push` and `Take` are not stutters.
  `EmptyQueueNeverJoins` (`EmptyStopStrands`): a queue stopped empty stays so,
  a worker inside `pop` stays there (`StrandedStays`), and `join_all` is past a
  worker only when it is done (`JoinedInv`).
* `NetworkCommunicator_proofs`. `RegistryInv` says who works on which socket
  (`ThreadInv`, `OwnerInv`), that a socket being read has its callback
  (`HookInv`), and, until `_socketIndex` wraps, that all indexes in use are at most
  `_socketIndex` and a looked-up index still names its socket if it names any
  (`IndexInv`). Neither `OneIndexPerSocket` nor `ReaderClosesOwn` is inductive
  alone: that an accepted socket is registered again only without an entry
  depends on its owner, and that an index is not reused depends on the bound.
  `NotifiedOnce` (`NotifiedAtMostOnce`) counts (`NotifyInv`): the disconnections
  told of an index, the calls that took it out of the map and have yet to tell
  (`Telling`), and the entry that is still there add up to at most the
  registrations of that index (`Account`), while `disconnectAll` has told a part of the
  entries it will clear (`Untold`).
  Two theorems say how far `OwnIndexReturned`, which `comm_index_race` violates,
  holds. `OwnIndexAlone` has as its hypothesis that at no time two threads are
  behind the critical section of `registerSocket` (`OneReturns`); then
  `_socketIndex` is still the index just given when it is read again (`OwnInv`), so
  that race is the only cause. `OneClientOwnIndex` discharges the hypothesis
  for one connecting thread in a program that does not listen.
* `GPBConnections_proofs`. Every step of the composition is a step of the
  communicator or leaves it alone (`SlotsImplementCommunicator`), so the
  communicator's theorems hold in it; with them, `SlotsExclude`: `_lckSockets` has
  one owner, and a slot stays inside the call that runs it. `SentPacketsFound`
  (`ReaderFindsSentMap`): what the slots were told of keeps its sent map until it is
  told lost (`SentInv`). That is enough for a program that listens. One
  that does not claims more, that a reader's index is always one the slots know,
  and this is proved for one connecting thread (`OneClient`, with `ClientInv`): with two,
  `connectTo` may hand the slots the other thread's index, which is the finding of
  `comm_index_race`. `NothingKeptForLost` (`SentMapForgotten`) needs no such
  hypothesis: until `_socketIndex` wraps each index is given out once, and what the
  only application thread is connecting stays registered (`FirstUse`), so that a
  slot that brings a lost index back is one that `MayBeLate` describes.
  The two locks: `CrossedLocks` says that each of two threads has the lock the other
  needs. `CrossedForGood`: no step of any thread undoes it, so a
  `disconnectAll` that got there never returns; the registry's lock is kept between steps
  only by `disconnectAll` and `deregisterSocket` (`HeldInv`), and of them only
  `disconnectAll` calls slots. `OnlyDisconnectAllCrosses`: without `disconnectAll`
  it never comes about. `conn_deadlock` has the behaviour that reaches it.
* `GPBManager_proofs`. `PipelineInv` says, besides the types: what packets each
  stage carries (`CodeInv`: requests and replies on the way out, on the way back only
  packets of that connection, a push only under a number its peer has used), that
  a reply under a request's number comes after the answer or is one to a push of
  that number (`ReplyInv`), that the busy protocol's steps are taken only with it
  (`ModeInv`), and, for every number no peer has used (`Clean`), by the stage of the request,
 the only places it can be in (`Where`, `MsgInv`). Neither `OneCopy` nor `NothingLost`
  is inductive alone: a step that takes a packet from a queue must know that the
  queue held it once. Every action is shown to move requests from one place to the
  next (`Moves`), to drop one (`Drops`) or to leave them where they are (`Still`).
  From it `RequestOnce`, `RequestKept`, `PipelineTypes`; with `SentInv` (under
  the busy protocol every such request between the sender's write and the read
  callback is in the sent map of its connection) `AnswerFindsRequest`. Two theorems
  are about violations. `RestUntilPush` (`OnlyAPushResumes`) says why `gpb_resend`
  fails: once the server has turned down everything, the manager stays at rest
  until a peer sends unasked. `BusyDiscardedAlone` proves what `gpb_busy_race` refutes
  for several connections: with one, its reader is the only writer of `_isBusy`
  between its own write and its test (`BusyInv`), and every busy packet is discarded.
* `LogPipeline_proofs`. `PipelineInv` adds to the types that every context out
  of the pool has one owner (`PoolInv`), who can be where (`StageInv`) and that the
  stages hold the log (`LogInOrder`). The order needs the ownership: a context
  formatted by a caller is not one that is queued, so formatting changes no
  queued text. Lemmas about concatenation move a message from stage to stage.
  `NoContextLeaks` is the converse of ownership (`AllOwned`): no context is in
  use that nobody has, without which `CallReturns` could not hold. Around `log_stop`,
  from who is inside `_csFactory` (`FactoryInv`): a `StopLogger` that finds
  `workerFileThread` asleep never returns (`SleeperNeverJoined`), and one that does
  not is never blocked by it (`AwakeStaysAwake`). So whether it hangs is decided
  when it enters the critical section.
* `LoggerTree_proofs`. `TreeInv` describes the children of every logger by which names were
  asked for. From it: a recursion over `_vecChilds` from a logger stays below it in name
  (`ConfigurationsApart`), the root's reaches every top-level logger that `wcsicmp` tells
  from the root, and no other (`TopLoggersFollow`), and callbacks have a reason to be where
  they are (`CallbacksRooted`). `logger_follow` violates `ChildrenFollow`; what holds
  instead is proved from both sides: a configuration set again at a logger goes down every
  name to the first logger that was asked for (`MadeOnTheWayFollow`, by induction along the
  name), and to that one it does not go (`AskedKeepTheirOwn`). A name that begins with `/`
  is excepted: its second part hangs from the root.
* `LogFiles_proofs`. `FilesInv` says who writes, without `isSynchronousOp` one thread
  only (`Writing`), and that nobody comes to have no file (`FileThere`): the map of
  open files has no null pointer, a name that was chosen is still there when it
  is looked up, and a file that was found is one. The last two hold until a
  configuration is given to a logger that is writing or, with several writers, a
  file cannot be made; up to then messages lost and failures are equal in number.
  From it `LossNeedsFailure` (`LostOnlyOnFailure`). `DirInv` adds that the
  files of today have indexes below their number (`Numbered`) and that what is open
  is on disk and only that is named or held (`Held`), so that the number of today's
  files is a new index: `MakesFreshFiles` (`FreshFile`). `WorkerInv` follows the single
  writer of asynchronous logging: the file it goes on to is the one whose size it
  tested and is below its limit (`Room`, for `FilesWithinLimit`), a logger with a file of its own
  has the date of that file (`Dated`, for `WritesTodaysFile`), and a common log gets
  a file only where none is open until one splits (`Unified`, for
  `OneFileUntilSplit`). For several writers that theorem counts: open files and
  threads about to make one are together at most the threads (`SharesLeft`).
* `Library_proofs`, for the smaller parts.
  * `IoServicePool`, `PoolInv`: without overlap one thread is inside
    (`OneInside`), and the services before the index have been dealt once more than
    those behind it, with the cases of a thread that has read and not yet
    incremented or is about to begin anew (`Round`). From it `ServicesInTurn`
    (`PoolRoundRobin`), for any number of services.
  * `XMLMapper`, `XmlInv`: unless calls raced, no two calls in conflict go on at
    the same time (`NoConflict`) and a query stays in the cache between compilation
    and look-up (`QueryThere`); and unless a load failed too, or a file was saved
    before it was loaded, the file is the configuration, and so is the document
    once it was named, except while it is parsed (`DocumentThere`). Nobody changes
    what a thread is about to touch (`NobodyChanges`), because who takes no lock is
    not there and who does is not inside: for this it must be known which call a
    thread is in (`OpAtPc`) and how often `_cs` was entered (`CsInv`). From it
    `ConfigurationSafe` (`XmlSafe`). Until a setter's query throws, the owner of `_cs`
    is inside a section (`CsHeldInside`); afterwards no other thread ever is
    (`LeakedForGood`).
  * `Downloader`, `DlInv`: while no download has been left behind, the threads of
    the others are done (`OthersDone`), the running one has its own address
    (`OwnAddress`), and a result that is announced is stored (`LastStored`). From it
    `DownloadReturnsOwn` (`OwnResult`, the safety part of `DownloadOutcome`).
  * `WinService`, `SvcInv`: a call that polls and has read a status has not read
    the one it waits for, and what the service was in during the call is recorded.
    From it `ServiceTrueIsTrue` (`TrueIsTrue`, the safety part of `ServiceAnswer`).
  * `CommonSocket`, `SockInv`: the read buffer and the wire together hold the frames
    of the packets sent whole and not yet read, one behind the other (`LaidOut`,
    with a function from packets to positions), and behind them nothing unless a
    write has torn the stream; while a body is read, the size taken from the header
    is that of the packet whose turn it is (`Arranged`). What was read before the
    slot came comes before what was read after. Once all those packets have
    been read the invariant says nothing: anything may follow a tear. From it
    `SocketImplementsFifo` (`FramesInOrder`), step by step. It rests on
    `HeaderReadBack` (`HeaderInverts`): `decode_header` gives back the size that
    `encode_header` wrote, for any base, any number of header bytes and every size that
    fits; after k bytes the fold has the size without its last digits (`Shifted`).
    The proof needs a header of at least one byte: without one the reader
    would deliver empty packets nobody sent.
  * `DateTime`: `DatesReadBack` (`TimeRoundTrip`), for any number of items and any
    size of the buffer: the text of a format is that of its parts one behind the
    other, and after each part the parser has the fields of those before it
    (`DateSoFar`). No format writes nothing, so only a text that does not fit is
    empty (`SomethingWritten`).

The last two, and `MadeOnTheWayFollow`, are inductions over data. The library's induction
theorems have an operator as a parameter, which the provers do not instantiate;
the modules derive what they need, induction for sets of naturals (`SetInduction`)
and the equations of recursive functions and folds (`NatRecursion` and the lemmas
behind it), from the least element of a set of naturals, for which the library's
fact about well-founded relations (`WFMin`) takes a set.

Only model-checked, and why: what holds under fairness (`EveryItemTaken`,
`StopWithItemsJoins`, `BrokenIsDropped`, `BroadcastReturns`, `AnswerStored`, `CallReturns`,
`MessageWritten`, `PlainStopReturns`, `FrameOrBroken`, `PoolServed`, `XmlCallReturns`,
and the halves of `DownloadOutcome` and `ServiceAnswer` that say a call returns), out
of this prover's reach. Every other property of a passing run is the statement
of a theorem. One of these has a hypothesis, `SentPacketsFound`, above.

## 5. Plan

Done: the modules of section 2. What is left, in this order:

1. Packets over connections that come and go: `GPBManager` composed with
   `GPBConnections`.
2. `LogFiles` composed with `LogPipeline`, for batches whose file has been split.
3. Pure functions, against reference definitions over bounded inputs: splitting
   and replacing in strings, the states of the format parser.

## 6. What the runs found

Six runs violate a statement of the repository:

* `comm_index_race`: `registerSocket` reads `_socketIndex` again after it has left
  the critical section, so with two connecting threads `connectTo` may return the
  index of the other's socket. With one it does not (`OneClientOwnIndex`).
* `conn_deadlock`: `disconnectAll` runs the slots inside `_csMapIndexToSocket`,
  and they want `_lckSockets`; the slot of a broken connection, and a broadcast,
  hold `_lckSockets` and want `_csMapIndexToSocket`. Once it has come to that it
  stays (`CrossedForGood`), and only `disconnectAll` can cause it
  (`OnlyDisconnectAllCrosses`).
* `gpb_busy_race`: `_isBusy` is written and read again by readers of different
  connections; a busy packet can be delivered as an answer. With one connection
  it cannot (`BusyDiscardedAlone`).
* `gpb_resend`: CGPBManagerV2.h:76 says that a packet the server was too busy for is
  sent again after an interval. The sender sleeps the interval and looks at
  `_isBusy` again, but only a packet that is read lowers it. When the server
  has turned down everything it was sent, none comes, and the manager is at rest
  until the server sends something unasked (`RestUntilPush`).
* `log_stop`: `StopLogger` joins `workerFileThread` inside the critical section
  that thread needs; it hangs whenever it finds the thread asleep
  (`SleeperNeverJoined`), and awake the thread does not block it (`AwakeStaysAwake`).
* `logger_follow`: a logger asked for as `a/b` is a child of nobody, so a change
  of `a` does not reach it.

Passing runs show these as properties, or state around them:

* a queue stopped while empty never releases a worker, unless somebody pushes
  again (`EmptyStopStrands`);
* both ends number their packets from 1, so a packet the peer sends unasked may be
  taken for the answer to a request of this side, whose own answer then finds
  nothing; `OneCopy`, `NothingLost`, `AnswerMatched` and `AnswerStored` are about the other
  requests (`Clean`);
* an accepted connection that breaks at once may be told lost before it is told
  new: reading starts before the slots run (CNetworkCommunicator.cpp:206, :208-209),
  and the late slot makes a sent map that nobody deletes. So does a slot that
  was handed another socket's index (`SentMapForgotten`, `MayBeLate`);
* what such a connection reads before its slot is registered is gone, or meets
  the slot vector while it grows (commonSocket.cpp:108); and a write that fails
  inside a frame is only logged (commonSocket.cpp:28-36), so the packets sent after
  it are read across the tear (`FramesInOrder`, `FrameOrBroken`);
* a common log is one file only until a logger splits; then each goes its own
  way. With `isSynchronousOp` it may be several from the start: WriteData looks for an
  open file in one critical section (cmnLogger.cpp:174) and makes one in another
  (`UnifiedUntilSplit`);
* a file passes its limit, of which cmnLogger.hpp:110 speaks, by up to a message: the
  test comes before the write (cmnLogger.cpp:306). In batches it does by all that was
  queued since the test; and with `isSynchronousOp` a thread that holds a file may
  test the size of the next one, to which its logger has gone on, so a file can pass
  its limit again and again. `SizeBounded` is stated for `workerThread` writing at once;
* days are compared within the year, so in January the split waits until the day
  of year of the old file has passed (`DayOfFile` stops at the year's end), and the
  date of a logger that was given the common file is not initialised (`DayOfFile` is
  about one file per logger). The day is that of the test; midnight may come before
  the write;
* the child that a configuration skips is compared with `wcsicmp`
  (cmnLogger.cpp:522), while the map of loggers is case-sensitive: a logger `ROOT` does
  not follow `root` (`TopFollowsRoot`);
* two threads in `getNextIoService` may deal an element behind the vector, and
  the destructor of one communicator stops the services of all
  (`PoolRoundRobin`, `PoolServed`);
* a setter given a query that throws leaves `_cs` entered, which blocks every
  other thread (`XmlCallReturns`, `LeakedForGood`); a `RefreshXML` that fails leaves an empty
  document that the next `SaveFile` writes over the file, as does a `SaveFile` that is given
  the path before anything was loaded (commonXMLMapperV2.cpp:79, :94); and the calls
  that take no lock, the getters that are not of `bool` and `SetDataFromItemWithVars`
  among them, meet the writes of those that do (`XmlSafe`);
* `DownloadToFile` returns only when ten minutes pass without an event, also after
  the completion, and one that timed out returns the result of an earlier
  download, or `S_OK` (`DownloadOutcome`);
* a service counts as stopped or started when the first status could not be read
  and the uninitialised one says so (`ServiceAnswer`);
* `%p` at the end of a format is not read, and twelve o'clock by `%I` is read as 12
  at night and 24 at noon; a text of 128 characters or more is empty and read as
  the time 0 (`TimeRoundTrip`).

Seen while modelling and not the subject of a run: `deregisterSocket` tests one
variable and erases another, and can spin inside the critical section; a packet
already popped when `_isBusy` goes up is dropped; `receiveDisconnection` erases
`getSocket( socketIndex )`, a new socket, from `_setConnectionedSockets`, because the entry
is gone by then, so that the set never shrinks on a disconnect, although
CGPBManagerV2.h:591 says that the socket is removed, and broadcasts go on
queueing packets for it (`LostErase` does the same); a packet pushed by the server
is filtered like an answer when the busy protocol is on; responses are never
removed when a connection is lost, although a comment announces it; `getSocket`
makes a socket for an index that is gone; `root` is its own child, and giving it
another logger's configuration recurses for ever; `AddCallback` and
`RemoveCallback` lock with a temporary that is gone at the end of the statement;
a split does not close the file it leaves, although the comment in `WriteData`
asks for it, and an open file cannot be deleted, so that a running process keeps
its own old files beyond `maxLogFileDateCount`; the pool has its default number of
services whatever a communicator asks for; `formatElapsedTime` without `%H` gives an
empty text; `getInternetConnectedAddress` tests for virtual adapters the wrong way
round.

## 7. Not modelled

Client and server programs (empty), vendored libraries, PC information and most
of the Windows utilities (one system call each), `CExchangeNetworkBase` and the
traits (types, macros and a table filled once), the formatter, string functions
and character sets (text layout, without state).
Inside the modelled parts: a `fputws` that fails, nodes that `CreateNode` and `SetValue` add or
change, a call that logs while
`StopLogger` runs, `InitLogger` after `StopLogger` in one process, callbacks that log, data races
on `_fileWriteQueue` and on the callback maps, a second manager, the first call of
`CIoServicePool::getInstance` by two threads. `PROJECT.json` has a
hazard with a note for those most likely to go wrong.
