# CloudSave2.0 in TLA+

TLA+ models of CloudSave2.0: the muduo-style network library of `src/src` (event
loops, connections, timers, pools) and the file server of `src/FileServer` built
on it. Every definition is translated from the C++ source (the page
`upload.html` is the client); `PROJECT.json` maps each one to its lines.

## The system

The library is "one loop per thread". An `EventLoop` owns an epoll instance, an
eventfd for wakeups, a `TimerQueue` and a vector of functors that other threads
push. A `TcpServer` accepts on a main loop and gives every connection to an io
loop of an `EventLoopThreadPool`. The `FileServer` is a `TcpServer` whose message
callback parses HTTP requests; it digests uploads on a second pool of two loops
and keeps its rows in MySQL through `MysqlConnectionPool`.

| component | state | operations | talks to |
|---|---|---|---|
| EventLoop | `_quit`, `_functions`, `_callingPendingFunctions`, the eventfd, `_channelList` | loop, quit, run, push, wakeup, doPendingFunctions | every other component, by functors |
| Epoll, Channel | interest set, index, map of channels, returned events | update, remove, poll, handleEvent | EventLoop, TcpConnection, TimerQueue, Connector, Acceptor |
| TcpConnection | `_state`, two buffers, its channel and socket | send, shutdown, forceClose from any thread; handleRead, handleWrite, handleClose, connectionEstablished, connectionDestoryed on its loop | TcpServer by the close callback, the user by callbacks |
| TcpServer | `_connectionMemo` | acceptorCallback, removeConnection, destructor | the main loop and the io loops |
| TimerQueue | `_list`, `_activeTimers`, `_cancleingTimers`, the timerfd | addTimer, cancel, handleRead, reset | EventLoop |
| EventLoopThread(Pool) | `_loop`, `_quit`, `_next` | startLoop, destructor, getNextLoop | EventLoop |
| Connector, TcpClient | `_state`, `_connect`, the retry delay, `_connection` | start, stop, restart, retry, connect, disconnect | EventLoop timers, TcpConnection |
| Acceptor, Socket | listening socket, the spare descriptor | listen, handleReadEvent | TcpServer |
| Buffer | read and write index, bytes | append, retrieve, receive, send | TcpConnection, parsers |
| HTTP and TCP parsers | none | receive, send, exec | Buffer, FileServer |
| MysqlConnectionPool | `_queue`, `_totalsize` | getHandle, release, add, remove, keepAlive | its own loop's timers, FileServer |
| ThreadPool | `_taskQueue`, `_running` | append, threadTask, stop | nobody in the repository |
| FileServer, FileInfo | `fileInfoMemo`, `connectionInfo` (thread local), `_chunkSize`, `_calcIndex`, the digest | login, file information, upload, file list, download | io loops, calculation loops, MySQL |

What is hard here: the wakeup protocol between `push`, `quit` and the loop;
functors that outlive what they are bound to; a connection that is closed by its
peer, by its own callbacks, by worker threads and by the server at once; timers
cancelled from the callbacks they run in; condition variables; a file whose
chunks are written by one thread and digested by another. `PROJECT.json` lists
these hazards at their lines, with the property that covers each or the reason
why none does.

What makes each component correct:

- EventLoop: a functor pushed is run, once and in order; a loop with work or with
  `_quit` set does not sleep.
- TcpConnection and TcpServer: no functor or active channel refers to a destroyed
  connection; up and down are reported once, in order, and no message follows the
  down report, unless the callback of another connection closed it; EPOLLOUT is
  watched exactly while output is pending; a hang-up or a forced close ends in the
  destruction; output leaves.
- TimerQueue: the two indexes agree; the timerfd is armed in time; a cancellation
  holds and hits its own timer; a one-shot timer runs once.
- MysqlConnectionPool: exclusive use, a right count, a bounded size, a notified
  client finds a connection.
- ThreadPool: a bounded queue, no missing wakeup, tasks run, stop returns.
- EventLoopThreadPool: every loop handed out is there and alive; they take turns;
  start and destruction return.
- Connector and TcpClient: a descriptor belongs to one connection or attempt; after
  `stop()` there is neither; if the user calls `connect()` once and `stop()` overtakes
  no hang-up, no assertion fails and a lost connection comes back if it is to.
- Buffer and parsers: a queue of bytes; messages come out whole, in order, and all
  of them.
- FileServer: pages and server stay in step; what is accepted, and what is
  downloaded, is whole; what the page is told is recorded, of files of at least one
  byte and less than 2^32; every request is answered.

## Modules

| module | models | role |
|---|---|---|
| `TaskQueue` | what `EventLoop::push` promises | abstract specification |
| `EventLoop` | `event-loop.cpp`, with `epoll_wait` on the eventfd | implements `TaskQueue` |
| `EventLoopProofs` | | theorems about `EventLoop` |
| `TcpConnection` | the member functions of a connection, its channel and its registration, as operators on a record | used by `TcpServer` and `TcpClient` |
| `TcpServer` | main loop, io loops, connections, worker threads, peers | composition |
| `TcpServerProofs` | | theorems about `TcpServer` and the connections it runs |
| `TcpClient` | `tcp-client.cpp`, `connector.cpp`, and the connections they lead to | composition |
| `TcpClientProofs` | | theorems about `TcpClient` |
| `RoundRobin` | what `getNextLoop` promises | abstract specification |
| `LoopPool` | `eventloop-threadpool.cpp`, `eventloop-thread.cpp`, `thread.cpp` | implements `RoundRobin` |
| `TimerQueue` | `timer-queue.cpp`, `timer.cpp` | one loop and other threads |
| `TimerQueueProofs` | | theorems about `TimerQueue` |
| `MysqlConnectionPool` | `mysql-connection-pool.cpp` | clients and timers |
| `PoolProofs` | | theorems about `LoopPool` and about `MysqlConnectionPool` |
| `ThreadPool` | `threadpool.cpp` | producers, consumers, stop |
| `ThreadPoolProofs` | | theorems about `ThreadPool` |
| `ByteQueue` | what a buffer is to its users | abstract specification |
| `Buffer` | `buffer.cpp`: the vector, its indexes, compaction, growth, a read in two parts | implements `ByteQueue` |
| `PacketParser` | `http-packet-parser.cpp`, `tcp-packet-parser.cpp` and the loop of `onMessage` | composed with `Buffer` |
| `BufferProofs` | | theorems about `Buffer` and `PacketParser` |
| `Upload` | the upload path of `file-server.cpp`, `file-info.cpp` and `upload.html` | part of `FileServer` |
| `FileServer` | login, file list and downloads, with `Upload` | composition |
| `FileServerProofs` | | theorems about `FileServer` and its uploads |

`MC*` modules are the instances TLC checks: they add symmetry sets and the
functions that a configuration cannot write.

**EventLoop.** A step is what a thread does between two points where another can
interfere: `Push` is the critical section of `push`, `WakeAfterPush` the test of
`_callingPendingFunctions` after it and the write to the eventfd; `Quit` the store
and `WakeAfterQuit` the write; the loop's own steps are the store and the test of
`_quit`, `epoll_wait` (`PollReturns`, `PollTimesOut`), the handlers, the swap, each
functor, and the end of the batch. The owner pushes and quits too, from callbacks
and from functors. History variables `posted` and `ran` state the FIFO order;
through `INSTANCE TaskQueue` the property `FifoOnce` says that the loop implements
it.

**TcpConnection and TcpServer.** The server has io threads or none, as
`getNextLoop` chooses (`NextLoop`). What its users, the workers and the peers do is
one of a set of `Scenarios`, chosen in the initial state. A connection is a record; its operators carry
the names of the member functions (`Established`, `Closed`, `Destroyed`, `Sent`,
`Written`, ...) and include the channel and epoll calls they make. `TcpServer`
runs them: a round of a loop is `Poll`, the handlers of each active channel in
any order (`OnHangUp`, `OnRead`, `OnWrite`, the order of `handleEventWithGuard`), the
swap and the functors. Whether a connection is alive is computed from who holds a
`shared_ptr` to it: the memo, functors bound to one, workers. A worker does the
test of `_state`, the store and the push in separate steps. A message callback may
act on its own connection, or call `forceClose()` on another one of its loop
(`closeOther`): that one is closed at once, whatever of its events is still in the
active list, and `handleRead` and `handleClose`, which do not look at `_state`, then
deliver a message or report it down again. The history `cut` holds the connections so
closed with events to come; `NoMessageAfterDown` and `EndIsClean` excuse these and only
these. Of connection callbacks only what
they do to their own connection is modelled, and of the operations on other ones only
this, the one that executes at once and closes. A reset is an error
for the first read or write and the end of file afterwards. Of a loop only what
`EventLoop` proves is used: a functor pushed is run later, in order; `EventLoop`'s
lost quit is outside `TcpServer`.

**TimerQueue.** Timers are records at addresses that are reused once freed, so
that stale pointers and identifiers can be told from live ones. `HandleRead`,
`RunTimer`, `CallbackCalls` and `Reset` are the phases of `handleRead`; other threads
queue additions and cancellations, and `addTimer` reads the timer's number in a
step of its own, `ReturnTimerId`.

**MysqlConnectionPool, ThreadPool.** (The former's `MysqlInit`, `MysqlNext`, `MysqlSpec`
and `MysqlTypeOK` have long names because `PoolProofs` extends both pools.) A critical section is a step; waiting on a
condition variable splits a function in two, and a notified thread competes for
the mutex with the others.

**Buffer.** The record `buf` is the vector with its size and two indexes; the
operators follow the member functions and compose as they do (`Received` stores
what fits and appends the rest, `Appended` is `Ensured` and `Stored`). `send` reads the
buffer only: its caller retrieves. Through `INSTANCE ByteQueue` the property
`IsByteQueue` says that bytes come out as they went in.

**PacketParser.** The bytes of the peer's messages arrive in pieces of any length and
are appended as `Buffer` does (`Deliver`); then `Serve` cuts messages off the front
until `BreakOff` finds none. HTTP removes a request in one piece, the packet parser
its integer and then the rest. A head is two bytes, the second one the length of the
body; a malformed HTTP head is one whose first byte is wrong. In the third kind of
initial state the buffer is anyone's, and does whatever `Buffer` allows.

**LoopPool.** The base thread starts a thread at a time and waits until it has
published its loop (`StartThread`, `Check`, `Publish`); the wait may end for no reason
(`WakeSpuriously`). Callers then load `_next` (`Load`) and exchange it (`Exchange`, or
`Reload` when that fails) in separate steps. The destructors quit each loop in two
steps, the flag (`QuitLoop`) and the write to the eventfd (`Wakeup`), and join. A loop
clears `_quit` when it is entered; the history `forgotten` remembers a quit it erased.
Through `INSTANCE RoundRobin` the property `IsRoundRobin` says that the loops take
turns.

**TcpClient.** The members of client and connector are one record, and an operator
per member function computes the records it may leave: `Connect` has an outcome for
each group of errors of its switch, callbacks have one for each thing the user may
do in them. The loop takes the events of a round in any order, against a state that
earlier handlers of the round have changed, and then the functors. Descriptors are
numbers that `NewSocket` hands out lowest first, as `socket(2)` does, so that the
connector's copy of a number can come to mean another connection's socket. A handler
may call `stop()`, `disconnect()` or `connect()` in the round of any event. The history
`careful` tells whether the user has kept to what the assertions of the code need: it
becomes false when `stop()` closes a connection whose hang-up waits in the same round,
and when `connect()` is called again. `AssertionsHold` is about a careful user;
`NoAssertionFails`, about every user, is false. `Reconnects` promises nothing to a user
who is not careful.

**Upload and FileServer.** The page sends one request at a time. `StartWrite` and
`FinishWrite` are `upload` before and after the insertion into `_chunkSize`; a lookup by
the calculation loop in between is the data race of the code and finds the chunk or
not. A chunk's content is its index, and a digest is right when it was fed all of
them in order; chunks of two files with the same index are not told apart by it.
`isCompleted` adds the sizes of the chunks up in an `int` (`Summed`, modulo `Word`,
which is 2^32 in the code) and compares the sum with the 64-bit size: a file of 2^32
bytes or more is never complete, the plain 200 that answers its last chunk is all it
gets, and the page reports a success (`ToldIsRecorded` is about the sizes the code can
count, `Storable`). From 2 GiB on that sum is a signed
overflow, which the build wraps. `FileServer` adds the requests whose handlers run on the io loop alone
(`LoginHandler`, `ListHandler`, `DownloadHandler`) and the chain of functors that sends
a file: each `StreamSend` looks the file up by name, sends one chunk and pushes the
next. The links a page may follow are those of the list it was given, and the list
comes from the database.

## Checks

Runs that pass:

| run | bounds | shows |
|---|---|---|
| `eventloop` | 2 other threads, 3 functors | no sleep on a functor or a quit; FIFO, at most once; every functor runs and quit stops the loop, without help from the poll timeout |
| `server` | 4 scenarios, with io threads or without: 2 connections that are force-closed, by their own callbacks or by each other's, reset and ended; 1 connection and 2 workers that force-close; 2 workers that send and shut down; half-closes of either side with output pending. `~TcpServer` at any moment of the first two | ownership of what functors and active lists point to; a clean end, reported once, and no message after it, but for connections another's callback cut off; EPOLLOUT exact; destruction after hang-up and forceClose; output leaves |
| `timers` | 2 timers, 2 addresses, 4 units of time, 1 other thread | indexes, pointers, arming, cancellation; scheduled timers run |
| `mysql_pool` | 4 clients, minsize = maxsize = 2 | exclusive use, count, bound |
| `threadpool` | 2 consumers, 3 producers, 4 tasks, a queue of 1, `stop` | bound, wakeups, tasks run |
| `buffer` | 2 values of a byte, up to 3 bytes at once and 4 held, a vector of 3 cells with a head of 1, an overflow array of 2; 3 messages of 2 or 3 bytes, some malformed | indexes in order, a queue of bytes; messages whole and in order; every one served |
| `file_server` | 2 pages, 2 io loops, a shared calculation loop, 3 requests begun by one user and 2 by the other, short writes, hang-ups, a database that fails; files of 3, 4 and 0 bytes in chunks of 2 with sums modulo 4, all of them on the disk of the first user and the first on that of the other (`Disk`) | pages and server in step and files whole both ways at every size; what is told is recorded of the sizes the code can count; requests are answered |
| `tcp_client` | 2 calls of `connect()`, 5 descriptors, any number of attempts, losses, stops and disconnects, in the round of any event | descriptors and `stop()`; assertions and reconnection for a careful user |
| `loop_pool` | 3 loops, 2 callers, 5 calls | loops alive, round robin, start and destruction return |

Runs that TLC violates, each a disagreement between the code and what the
repository says of it:

| run | what happens |
|---|---|
| `server_raw_send` | `send()` from another thread leaves a functor bound to a raw pointer, against the comment at `tcp-server.cpp:112-116` |
| `server_half_close` | `shutdown()` with output pending never half-closes |
| `mysql_pool_empty` | a notified client takes `front()` of an empty queue |

**Where the code goes wrong and no run says so.** The models contain these
behaviours too (a property that forbids one is refuted by a short trace), and the
properties above are stated around them. A property called false here is a definition
of its module that TLC refutes when it is made an INVARIANT of the module's run:

- A callback that calls `forceClose()` on another connection of its loop closes it at
  once (`event-loop.cpp:80-83`), and what is left of its events delivers a message, or
  reports it down again (`tcp-connection.cpp:140-174`): `ReportedDownOnce`, which says of
  `_connectionCallback` what `tcp-connection.h:135` says, is false. `NoMessageAfterDown` and
  `EndIsClean` excuse the connections in `cut`.
- `loop()` resets `_quit` (`event-loop.cpp:37`): a `quit()` made before is forgotten,
  and `~EventLoopThread` then joins for ever. `Returns` excuses it.
- `~EventLoopThread` calls `quit()`, whose write to the eventfd (`event-loop.cpp:53`)
  comes after the flag: by then the loop, on its thread's stack, may be gone.
- `~TcpServer`'s last functors are lost in loops that quit first
  (`tcp-server.cpp:15`): a connection is destroyed in state CONNECTED, against the
  assertion of `~TcpConnection`. `EndIsClean` is about a running server.
- A cancellation by the owner's thread overtakes an addition still queued
  (`timer-queue.cpp:129`), and `addTimer` reads a timer that the loop may have
  deleted (`timer-queue.cpp:36`): the step `ReturnTimerId`.
- The MySQL pool grows to maxsize + minsize (`mysql-connection-pool.cpp:129`), the
  bound `SizeIsCounted` states.
- `ThreadPool::stop` never returns once a consumer waits (`threadpool.cpp:73`).
- `FileInfo::update` looks into `_chunkSize` while the io loop inserts
  (`file-info.cpp:120`): a lookup that misses drops the chunk, and a whole file is
  rejected. The models reject it too, and no property forbids it; `FilesAreWhole` is
  the other direction, which holds.
- A file of 2^32 bytes or more is never complete (`file-info.cpp:101-109`), and an empty
  one has no chunk: for both the page says that the upload has succeeded
  (`upload.html:115-117`), and there is no row, against the claim of `src/README.md:18`
  for the former. `SuccessIsRecorded` is false; `ToldIsRecorded` is about the sizes in
  between.
- The page reports a file as uploaded whose row could not be inserted
  (`file-server.cpp:397`): `ToldIsRecorded` excuses it by the history `lost`.
- A refused login is answered twice (`file-server.cpp:365` and `onMessage`): `InStep`
  excuses that answer; a download with a Range header is never answered
  (`file-server.cpp:452`): no request of the model has one. Malformed HTTP is never
  answered and stays in front of all that follows: `EveryMessageServed` is about
  messages with nothing malformed before them.
- When an upload failed half-way, `fileInfoMemo` keeps an object that is open for
  writing; a download of that name on the same connection reads -1 bytes and throws
  in `resize` (`file-info.cpp:183`). `FollowLink` leaves these links alone.
- `TcpClient`: `stop()` by a handler of the same round, before a hang-up is handled, makes
  `removeConntction` run twice (the assertion at `tcp-client.cpp:127`), and `connect()` on a
  client that is connecting or connected meets the one at `connector.cpp:50`:
  `NoAssertionFails` is false, and `AssertionsHold` is about users who do neither
  (`careful`). Both are steps of the runs.
- `TcpClient`: nothing clears `_connect`, so that `stop()` does not stop a pending retry
  or a queued start: `StopHolds` is about the rest. Errors of `connect(2)` that its
  switch does not list leave the socket open and are not retried: `Reconnects` excuses
  them; nor does `stop()` close the socket of an attempt (`connector.cpp:58`). A
  connection forced to close from its own connection callback while `_retry` is set
  reconnects before the old channel is gone (the assertion at `connector.cpp:116`): in
  the model `UpCalls` has `stop` and `disconnect`, after which nothing is retried.

**Why the bounds are enough.** Two actors are what each race needs (a thread and
the loop, two connections for a stale active list, two workers for the state
race, a borrower and a thief in the pool, two callers of `getNextLoop`), and each
counter is one past the value where behaviour changes: a second functor for the
order, a second message while output is pending, a second timer for a reused
address, a producer more than the queue has room for, more bytes at once than a
vector and its overflow array have cells, a third message behind one that came with
the last, a second turn of the first loop. A page that logs in, uploads and
downloads starts three things; a client called twice may hold the descriptors of two
lost connections, of two attempts and of a socket left open, five. Files of two chunks
with a short last one, of as many bytes as the sum can no longer hold, and of none are
the three kinds `isCompleted` tells apart. The theorems below lift the
bounds of the event loop, the server and its connections, the timers, the buffer and
the framing, the three pools, the client's descriptors and the file server.

**Deadlock** is not checked: all these systems may come to rest (a stopped loop,
closed connections, an idle pool), and bounded inputs run out. What must not
get stuck is stated as liveness.

**Fairness.** Weak fairness of each thread: the scheduler runs every runnable
thread, callbacks and tasks return. `EventLoop`'s live specification leaves out the
poll timeout, so that liveness rests on wakeups alone. In `TcpServer` a peer that
is sent data reads it in the end; it need never send or hang up. In `ThreadPool`
a producer that keeps waking up gets the mutex while there is room (strong
fairness of `Add`): without it the others may take the room each time. In
`TimerQueue` time passes; its last value stands for all later ones. In `LoopPool`
threads go on, and no wakeup without reason is relied on. In `FileServer` the loops
run what they have and a page goes on with what it began; users need not begin
anything. In `TcpClient` the loop goes on, and the world is fair strongly: timers
fall due, sockets become writable, and of attempts repeated without end some get
under way and some succeed, as the server that is there makes them.

## Proofs

`EventLoopProofs` is checked by TLAPS for any set of threads and functors, from
the one assumption that the owner is not one of the other threads
(`ThreadsDistinct`).

- `TypeCorrect`: `Spec => []TypeOK`.
- `NeverSleepsOnWork`: `Spec => []NeverAsleepOnWork`, from two theorems.
  `NoWakeupIsLost` is about functors. The invariant is not inductive: that a polling
  loop with a non-empty queue is going to be woken depends on what every thread that
  has pushed is about to do and on the flag it will test. `OwnerInv` says that
  `_callingPendingFunctions` is set exactly while functors run and that the owner
  pushes only from inside a handler or a functor; `WakeupInv` that whenever the queue
  is not empty, except while the loop handles events or has stopped, the eventfd is
  readable or some thread has yet to test whether to write it. `NobodySleepsOnQuit`
  is the same argument for `_quit`.
- `LoopIsFifo`: `Spec => FifoOnce`, a refinement: initial states map to initial states
  and each step is a step of `TaskQueue` or a stutter. `BatchInv` and `HistoryInv` tie
  the batch being run and the queue to the two histories.

`BufferProofs` is checked for every size of vector, head, overflow array and
message, from `BufferAssumption`, and the theorems about the parsers also for streams of
any number of messages, from `StreamAssumption` (a message is a head that carries the
length of its body, and that body). One lemma per operator says what it does to the
readable bytes (`StoredIsAppended`, `CompactedIsSame`, `ResizedIsSame`,
`EnsuredHasRoom`, `AppendedIsPut`, `ReceivedIsPut`, `RetrievedIsTaken`).

- `TypeCorrect`: `Spec => []TypeOK`; `IsBuffer` is inductive as it stands.
- `BufferIsByteQueue`: `Spec => IsByteQueue`, a refinement by the lemmas.
- `GrowthIsNeeded`: `Spec => GrowsOnlyWhenFull`.
- `MessagesAreFramed`: `StreamSpec => []Framing`. The invariant `StreamInv` says that the
  messages returned are the first of those posted and that what is in the buffer, and
  then on the wire, is the rest of them end to end. Then a complete message at the
  front of the buffer can only be the next one (`NextMessage`), because its length is in
  its head. `FlattenSeq` is defined by recursion, and what these steps need of it
  (`FlattenAppend`, `FlattenSplit`) needs induction: `SetInduction` and `SetOfSequences`
  are induction over a *set* of numbers or of sequences, from the well-foundedness of
  `<`, since a theorem with an operator parameter cannot be applied here.
- `StreamTypeCorrect` and `StreamIsByteQueue` are the first two of these for the buffer
  in the parsers' hands, the second one if the queue may be given what a read may bring
  (`ReadsAreInputs`).

`PoolProofs` is about two pools. `LoopPool` is checked for every number of loops and set
of callers, from `LoopPoolAssumption`: there is a loop, and a null pointer is none of them.

- `TypeCorrect`: `Spec => []TypeOK`; `_next` stays an index of `_loops`.
- `LoopsTakeTurns`: `Spec => IsRoundRobin`, a refinement: an exchange that succeeds
  found `_next` as it was loaded, so it is the step of `RoundRobin`, and no other step
  touches the counts.
- `LoadIsEven`: no loop was handed out more than once more than another. `Round` is the
  inductive invariant: the loops up to the one handed out last are one turn ahead of
  the others, and the first loop is the last of its round.
- `LoopsOutlive`: `Spec => []LoopsAlive`. What the base thread has done to a loop and
  where that loop's thread is are related thread by thread (`LivesInv`: a loop is
  published exactly while its thread runs it, it leaves only when told to, and a
  thread the base thread has passed has ended), and `LoopsInv` says how many loops the
  base thread has collected.

`MysqlConnectionPool` is checked for any clients and any finite set of connections, from
`PoolAssumption`: `MysqlTypeCorrect` is `MysqlSpec => []MysqlTypeOK`; `ConnectionsAreExclusive` and
`ConnectionsAreCounted` need each other (the count of the borrowed connections is one
only if no two clients share one) and `HoldsToUse`: a client has a connection exactly
while it uses it.

`TcpServerProofs` is checked for any connections, io loops, workers and messages, from
`ServerAssumption`: there is an io loop, connections are finitely many, and a null
pointer is none of them. One lemma per member function says what it does to the
record of a connection, one per action that it preserves the invariant.

- `TypeCorrect`, `OutputIsWatched` (`Spec => []WriteInterest`) and `DownIsSilent`
  (`Spec => NoMessageAfterDown`) hold in every scenario. `WriteInterest` alone is not
  inductive: a connection is registered by a functor, and nothing may touch it
  earlier. `OrderInv` and `FreshInv` say that `connectionEstablished` is queued before
  every other functor of its connection, `PlaceInv` that functors and channels stay
  on the loop of their connection, `PhaseInv` in which phase a loop has a batch or
  active channels and that io loops stop after the main loop, `ReadInv` that a
  connection reported down reads nothing but for the events left in the
  round in which it was cut off.
- `PointersStayAlive` (`Spec => []PointersAlive`) and `EndStaysClean`
  (`Spec => []EndIsClean`) assume `KeepsPointers` of each scenario: workers call
  `forceClose` only, which binds the smart pointer, or no connection is ended. Without
  it the first is false, and the run `server_raw_send` shows how; every scenario of
  `server` satisfies it. `KeptInv` is the heart: what a loop may still use is in the
  memo, or an owning functor is on its way to the main loop or back; `CloseInv` says
  that what is disconnecting will be closed, `DownInv` that without `forceClose` by
  workers the second of two events of one round finds the connection quiet, or cut
  off.

`TcpClientProofs` is checked for any number of calls of `connect()` and any descriptors
of which there are two (`ClientAssumption`, `TwoDescriptors`: with one descriptor only, an
attempt that follows a lost connection would have none). Handlers of the user's may
call anything in any round. Each operator has a lemma about the record it leaves.

- `ClientTypeCorrect`, `ClientStaysSound` and `ClientStaysStopped` are
  `[](careful => TypeOK)`, `[](careful => ClientIsSound)` and `[](careful => StopHolds)`,
  from one invariant, `ClientInv`, which holds for as long as the user is careful. It says in which
  stage the client is: the start is queued (`NotStarted`), or (`Good`) an attempt is
  under way, or a retry waits for its timer, or a connection is up, and only one of
  these; which functors are then queued and in which order (`Pending`: the channel is
  reset before the connection is destroyed); and what events still to be handled may
  find (`ReadyOk`: a hang-up finds its connection, and no functor pending; `StoppedLate`: a
  `stop()` behind a hang-up of the same round queues the reset after the destruction,
  which does no harm). While one of
  the stages lasts, every open descriptor is the connection's, the attempt's or the one
  to be closed, so that `NewSocket` has one to return. None of the three properties is
  inductive without it, and TLC refuted a first version: a socket that `stop()` or an
  error leaves open is only tolerable because no attempt follows. Without `careful`
  the second one is false. The run
  `tcp_client` checks `TypeOK` and `StopHolds` for every user, and of `ClientIsSound` all
  but the assertions; what is proved is about careful ones.

`TimerQueueProofs` is checked for any addresses, threads and number of additions, and
every set of delays that has a largest one, from `TimerAssumption`.

- `QueueStaysSound`, `NoTimerOversleeps` and `NoTimerEndsWrongly` are
  `[]QueueIsSound`, `[]ArmedInTime` and `TimersEndRightly`. The invariant says that a
  live timer is in exactly one of three places: with a functor (`PendingInv`), in both
  indexes (`ActiveInv`), or in the vector of the round (`RoundInv`); that numbers are
  given once (`NumbersInv`), which is why a stale `TimerId` hits nothing; that a
  timer cancelled in its own round is remembered (`CancelInv`); and that a
  one-shot timer that can still be called was not (`OnceInv`).

`ThreadPoolProofs` is checked for any producers, tasks and size of the queue, and at
least one consumer, from `ThreadPoolAssumption`.

- `TypeCorrect`: the queue never exceeds its limit.
- `NobodyIsForgotten`: `Spec => []NoMissedWakeup`. `WakeupInv` adds that no consumer
  leaves a running pool; otherwise the wakeup an `append` gives could be lost.
- `TasksRunOnce`: a task is with its producer, or in the queue, or taken, and in one
  place only. It states more than the runs do, which check that a task runs at all.

`FileServerProofs` is checked for any pages, loops, homes of connections and numbers
of requests, finitely many names and files of every size, from `UploadAssumption`.
The invariant speaks of one page at a time, and of the functors of its own in the
queues of all loops; of other pages' steps one lemma per action says that they leave
all of it alone (a queue only loses its head or grows at its end by others' functors).

- `TypeCorrect`: `Spec => []TypeOK`.
- `StaysInStep`: `Spec => []InStep`. `TurnInv` is whose turn it is: a request is on its
  way, or a chunk is being written, or a file judged, or the judgement sent, or a
  download streamed, or the page has its answer, and only one of these; `ReplyInv` says
  what each answer may be. A chunk finds its object because of `Awaits`: the file in
  the memo is open for writing, has every chunk except those the page still has to
  post, and none of these is digested.
- `FilesStayWhole`: `Spec => []FilesAreWhole`. `CalcInv` says that the chunks of a file
  are queued on one calculation loop, in ascending order, each above `_calcIndex`, and
  the judgement behind them; since a digest has as many chunks as `_calcIndex` counts,
  one that is accepted has them all. `DownloadInv` says that what the page has, and
  then what is on its way, are the first pieces of one file that is open for reading,
  and the functor, if there is one, is about to read the next.
- `ToldAfterRecorded`: `Spec => []ToldIsRecorded`, for files of every size; the property
  itself promises a row to those of at least one byte and less than `Word` only, since
  the others are reported without one. `UploadInv` carries the row: a judgement that
  is to be sent has `updateDataBase` in front of it in the queue of the same loop.

**Model-checked only.** Liveness: proofs under fairness need ENABLED, which these
provers do not treat. They are `EveryTaskRuns` and `QuitStops` of the event loop,
`EndDestroys` and `OutputDrains` of the server, `EveryTimerRuns`, `EveryTaskRuns` of the
thread pool, `EveryRequestAnswered`, `Reconnects`, `Returns` and `EveryMessageServed`.
Every invariant and every action property of a passing run is stated by a theorem.

## Not modelled, and why

- The destructors of `TcpClient` and `Connector` (which leave functors bound to `this`
  and close descriptors a connection has taken over), and calls of `stop()` and
  `disconnect()` from other threads, which read `_connection` without the mutex
  (`tcp-client.h:76`).
- The acceptor's spare descriptor: it depends on the descriptors of the whole process.
- HTTP heads beyond their length and being well formed (picohttpparser), and Range
  headers.
- The offsets of chunks: `_chunkPerSize * chunkIndex` wraps at 4 GiB
  (`file-info.cpp:59`), and chunk indexes have 16 bits (`file-info.h:88`), too few for
  more than 2^15 chunks; chunks are numbers here.
- With workers that force-close, `EndIsClean` demands no single report: the store of
  `forceClose` (`tcp-connection.cpp:69`) can overwrite `DISCONNECTED` after its test,
  and then the connection is closed, and reported, twice. No document promises
  otherwise; it is listed as a hazard.
- A pool of loops without threads, and the callback a thread may start with.
- SIGPIPE: the repository does not ignore it, so the EPIPE branch of
  `sendInOwnerLoop` is reached only if the surroundings do. The model takes it.
- `_writeCompleteCallback` and `_highWaterCallback` are never set.
- A functor pushed by the owner before `loop()` waits for the first poll timeout.
- Memory order: the flags of the loop are atomics or read under a mutex.
- RWLock, Mysql, logging, JSON, MD5, addresses, time stamps: wrappers and
  conversions without protocol. Vendored code: nlohmann/json, picohttpparser,
  spdlog.

## Plan

Done: the core (event loop, connections, server), timers, pools, buffer and framing,
the file server, the client and the pool of loops, and theorems about all of them.
What could follow:

1. An abstract connection (opened, messages, closed once) that `TcpServer` and
   `TcpClient` implement.
2. The destructors of `TcpClient` and `Connector`, and `stop()` by other threads.
3. `connect()` and `stop()` with the assertions at `connector.cpp:50` and
   `tcp-client.cpp:127` turned into tests, for which `careful` would not be needed.
4. Connection callbacks that act on other connections, and content of chunks that
   tells files apart.
