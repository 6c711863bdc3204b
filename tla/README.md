# A TLA+ model of mymuduo

mymuduo is a C++ rewrite of the core of the muduo network library: one event loop per
thread, non-blocking TCP connections, callbacks. This directory holds TLA+ modules that
model its loop, its poller, its buffers, its connections, its loop threads and its server,
TLC configurations that check them on small instances, and proofs for TLAPS. `PROJECT.json`
lists the components, the runs, the theorems, and for every definition the source lines it
stands for.

To check: `tlc -config EventLoopFifo.cfg MCEventLoop` (likewise the other configurations,
with the module in the table below) and `tlapm EventLoop_proofs.tla`.

## 1. The system

| component | state | operations | used by |
|---|---|---|---|
| `EventLoop` | `quit_`, `callingPendingFunctors_`, `pendingFunctors_` under `mutex_`, the eventfd `wakeupFd_`, `activeChannels_` | `loop`, `quit`, `runInLoop`, `queueInLoop`, `wakeup`, `handleRead`, `doPendingFunctor` | everything |
| `Channel` | `fd_`, `events_` (wanted), `revents_` (reported), `index_`, `tie_` | `enableReading` ... `disableAll`, `remove`, `handleEvent` | Acceptor, TcpConnection, EventLoop (eventfd) |
| `EPollPoller` | `channels_` (fd to Channel), the event list `events_`, the kernel's interest list | `poll`, `updateChannel`, `removeChannel`, `update` | EventLoop, Channel |
| `Buffer` | a vector, `readerIndex_`, `writerIndex_` | `append`, `retrieve...`, `readFd`, `writeFd`, `makeSpace` | TcpConnection, application |
| `TcpConnection` | `state_`, two Buffers, a Channel, a Socket, five callbacks | `send`, `shutdown`, `connectEstablished`, `connectDestroyed`, `handleRead/Write/Close/Error`, `sendInLoop`, `shutdownInLoop` | TcpServer, application |
| `TcpServer` | `connections_`, `nextConnId_`, `started_` | `start`, `newConnection`, `removeConnectionInLoop`, destructor | application |
| `Acceptor` | a listening Socket and Channel | `listen`, `handleRead` | TcpServer |
| `EventLoopThread`, `Thread` | `loop_` under `mutex_` and `cond_`; a semaphore; `started_`, `joined_` | `startLoop`, `threadfunc`, destructor; `start`, `join` | EventLoopThreadPool |
| `EventLoopThreadPool` | `loops_`, `threads_`, `next_` | `start`, `getNextLoop` | TcpServer |
| `Logger` | `logLevel_` | `setLogLevel`, `log` | everything |
| `InetAddress`, `Timestamp`, `CurrentThread`, `Socket` | addresses, times, a thread id, an fd | conversions and system calls | |

How they interact. A loop thread alternates between `epoll_wait`, the callbacks of the
channels that `epoll_wait` reported, and the batch of functors that were pending. Other
threads reach a loop in one way only: they push a functor under `mutex_`, or set `quit_`,
and then write the eventfd, which is one of the loop's own channels. An `Acceptor` channel
makes connections; `TcpServer::newConnection` stores a `shared_ptr` in `connections_` and
registers the connection's channel, whose callbacks are bound to the raw connection and
protected by a weak pointer (`tie_`). A connection ends through `handleClose`, which calls
the application and then the server, which drops its `shared_ptr` and queues
`connectDestroyed` with the last one.

What is hard, and what must hold:

* the eventfd write comes after the push, in another step than the swap of the queue: no
  wakeup may be lost, and functors run once, in order, without starving the channels;
* `index_`, `events_`, `channels_` and the kernel hold the same fact; a wrong
  `epoll_ctl` ends the process (`LOG_FATAL`), and fd numbers are reused;
* a buffer moves, grows and takes the detour through `readFd`'s stack buffer without
  losing, repeating or reordering a byte;
* a connection's data may be written directly, partly, or not at all; the rest waits for
  `EPOLLOUT`; the FIN must come after it; the peer may close or reset between any two steps;
* a connection is held by the map, by functors, by `tie_`, by the application and its
  threads; it must be off the poller before the last one drops it, and its end must be
  told to the application;
* `state_` is read and written by application threads in two steps;
* `start()` may be called by several threads, file descriptors run out, connections come and go
  in one batch of events, and the server may be destroyed at any time: every client is served
  once and in turn, and every end gives back its fd and its place in `connections_`;
* a loop thread is started, published, told to quit and joined from another thread, while it
  may reach the beginning or the end of its loop at any of these points.

`PROJECT.json` lists these and the smaller ones under `hazards`, each at its line.

## 2. The modules

```
FunctorQueue <--refines-- EventLoop <-- EventLoop_proofs       MCEventLoop
Channel <-- Poller <-- Poller_proofs                           MCPoller
ByteQueue <--refines-- BufferData <-- BufferData_proofs        MCBufferData
Buffer <-- BufferData
ByteStream <--refines-- TcpConnection <-- TcpConnection_proofs MCTcpConnection
Channel, Buffer <-- TcpConnection
EventLoopThreadPool <-- EventLoopThreadPool_proofs             MCEventLoopThreadPool
Service <--refines-- TcpServer <-- TcpServer_proofs            MCTcpServer
Channel <-- TcpServer
Channel <-- Channel_proofs <-- Poller_proofs, TcpConnection_proofs, TcpServer_proofs
Buffer <-- Buffer_proofs <-- BufferData_proofs, TcpConnection_proofs
```

**EventLoop** has one loop thread and the set `Threads` of other threads. `lpc` is where the
loop thread is in `loop()`: `check` (the while), `poll` (in `epoll_wait`), `dispatch` (the
for over `activeChannels_`), `run` (the for over the batch). `stack` holds the callbacks the
loop thread is in, because `runInLoop` on the loop thread calls at once. What a callback does
to its loop is any sequence of at most `MaxCalls` calls. A push, or the store to `quit_`, is
one action of another thread and the eventfd write that follows is a second one, so that all
of the loop can come between. `handleRead` adds to the eventfd, as the code does. A functor is
an identity; it can be submitted again when nobody holds it, so no bound on submissions is
needed. `early` is a history variable: what the loop's thread queued before `loop()`.

**FunctorQueue** is what `runInLoop` and `queueInLoop` promise: a FIFO, and a stack of running
callbacks. `EventLoop` implements it with `queue <- functors \o pendingFunctors`: the local
batch of `doPendingFunctor` and then what is pending.

**Channel** has the operations of `Channel` and of `EPollPoller` on one channel as functions of
a record (`index_`, `events_`, the kernel's entry and its mask). An `epoll_ctl` that would fail
sets the entry to `"fatal"`. **Poller** puts several of them on one epoll instance, with
`channels_`, fd numbers that are reused, a bounded event list and the kernel's conditions.
Owners remove a channel outside its own dispatch, as those in the repository do.

**Buffer** is the index arithmetic of `Buffer.h` and `Buffer.cc`, as functions of a record;
**BufferData** adds the bytes, the stale ones included; **ByteQueue** is the FIFO of bytes it
implements with `data <- Contents`. `WriteToFd` retrieves whatever `write()` took of what `writeFd`
offers, which is as many bytes as there is free space (`Buffer.cc:50`): what else than the contents
went out does not change the buffer, and is in module `TcpConnection`.

**TcpConnection** composes `Channel` and `Buffer` with one connection, its server and its
loop: the events `handleEventWithGuard` has still to run (`todo`), the functor batches, the
application's callback that is running (`cb`) and what its caller does next (`after`), the
application threads (`tpc`), the socket and the peer. Bytes are counts: `accepted` those that
`sendInLoop` took, `sent` those of them that were written to the socket in their turn, and `stale`
says that `handleWrite` wrote others, from behind `writerIndex_`. `write()` in `sendInLoop` takes
all, a part or nothing, or fails: `EPIPE` and `ECONNRESET` drop the data, any other errno stores it.
An error of the `write()` in `handleWrite` that passes is left out, as it changes nothing. A handler is one action
up to the point where it calls the application and another after it. The destructor is not a
step: `Alive` says whether anybody holds a `shared_ptr`. All connections live on the loop of
the Acceptor, because `getNextLoop` returns `baseLoop_` whenever there are loop threads
(`EventLoopThreadPool.cc:39` tests `empty()` the wrong way round; without loop threads it
reads `loops_[0]` of an empty vector). Undefined behaviour (a functor bound to a destroyed
connection, `closeCallback_` into a destroyed server) leads to `lpc = "undefined"`, and an
exception out of a functor to `"terminated"`; the behaviour ends there. Assumed of the
application: it ignores SIGPIPE, destroys the server from a functor of its loop, and always
sets the connection and message callbacks.

**ByteStream** says what becomes of the bytes that are sent on a connection. Between the report of
its beginning and that of its end, those that were taken are sent once and in order or wait, and a
FIN is sent once and behind the last. They are not all that is sent: after bytes have had to wait,
stale ones go out too, behind the last that waits and as long as none does. `TcpConnection` implements
it with `waiting <- ReadableBytes(out)`, `fin <- wrShut`, `phase <- told`, and `buffered <-` the
interest in `EPOLLOUT`, which nothing takes back; the indices, the registration and the queued
functors are inside. `shutdown()` does not end the taking of bytes, the FIN does: a send that had
tested `state_` before is served in `kDisconnecting`. After the end only the account of the bytes is
promised (`Accounted`), since a thread's late calls still have an effect then (`TcpConnectionRevived`).

**EventLoopThreadPool** has the owner (`opc`: in `start()` or in the destructor) and one thread
per `EventLoopThread` (`wpc`: from `std::thread` over `Thread::start`'s semaphore, the
`EventLoop`, its publication in `loop_` and `loop()` to the end). The sections under `mutex_`
are one action each; `cond_.wait` is the position `waiting`, which only `notify_one` ends. The
destructor's test of `loop_`, the two parts of `quit()` and `join` are four actions, because it
holds no mutex. Of the `EventLoop` only `quit_` and the eventfd appear. The application may end
any loop, once, as soon as it has it from the `ThreadInitCallback` (`appQuit`). A destructor
that uses a loop which is null or destroyed by then leads to `opc = "undefined"`: this needs a
loop that ends between the test and the use, which the destructor's own store to `quit_` can
cause, before it writes the eventfd.

**TcpServer** has the server, its Acceptor, several connections, the base loop and the loops of
the pool, whatever `getNextLoop` makes of them. A handler is one action: what can come between
the parts of a handler of one connection is in module `TcpConnection`, and here the question is
what connections, the Acceptor and the server do to each other. `lpc` is where each loop is
(`setup` is the time before `loop()`), `active` are the channels of the current `epoll_wait`
that are still to be handled, in any order, `pending` and `batch` are the functors. `start()` is
three actions: the atomic test of `started_`, the pool's `start()` (module
`EventLoopThreadPool` has its inside), and the call or the queueing of `Acceptor::listen`. The
thread of the base loop and the threads `Starters` may call it. `MaxFds` is the room that the
limit of fds leaves for connections: `AcceptFails` is `accept` with `EMFILE`. `GetNextLoop` is
the code's: the base loop when there are loop threads, and `loops_[0]` of an empty vector when
there are none, which sets `undefined` and ends the behaviour. So does a queued
`Acceptor::listen` or a `closeCallback_` that runs after the server is gone. A message may be
answered with `shutdown()`, as the example does. Each client connects once, so a client stands
for its connection's name (`nextConnId_` makes names unique). A pass through `loop()` that finds
nothing is not a step. The server is destroyed by its own thread, before `loop()` or between two
events. `removeConnection` has no caller.

**Service** is what the server promises: clients wait in a queue, are served from its head, and
end; a server that stops refuses those that wait. `TcpServer` implements it with
`waiting <- backlog` and the connections that the application was told of as `up` and `down`.

## 3. The runs

| run | module | expects | states | shows |
|---|---|---|---|---|
| `EventLoopFifo` | MCEventLoop | pass | 66336 | `TypeOK`, `NoLostWakeup`, `ImplementsFunctorQueue`, `EveryFunctorRuns`, `EventsNotStarved`, `QuitWhileLoopingStops` |
| `EventLoopBusyLoop` | MCEventLoop | `WakeupConsumed` violated | 7544 | `handleRead` writes the eventfd: after one wakeup the loop never blocks again |
| `PollerSync` | MCPoller | pass | 130626 | `TypeOK`, `InterestInSync`, `MapInSync`, `InputServed` |
| `BufferFifo` | MCBufferData | pass | 2173 | `TypeOK`, `IndicesOK`, `ImplementsByteQueue` |
| `TcpConnectionLifecycle` | MCTcpConnection | pass | 934677 | `TypeOK`, `NothingDangles`, `RemovedBeforeDestroyed`, `StaysWatched`, `EndReported`, `EndIsFinal`, `ImplementsByteStream`, `PeerEndDestroys`, `BacklogSent` |
| `TcpConnectionStale` | MCTcpConnection | `NothingElseSent` violated | | after a partial write `handleWrite` sends stale bytes of the output buffer |
| `TcpConnectionShutdown` | MCTcpConnection | `ShutdownCompletes` violated | | `handleWrite` never disables writing, so `shutdownInLoop` never shuts |
| `TcpConnectionRevived` | MCTcpConnection | `NoSendAfterEnd` violated | | `shutdown()` overwrites `kDisconnected`, and a later `sendInLoop` sends |
| `TcpServerConnections` | MCTcpServer | pass | 71095 | `TypeOK`, `MapOnOneThread`, `MapHoldsUp`, `RemovedBeforeDestroyed`, `StartedOnce`, `NothingDangles`, `EveryoneWatched`, `ImplementsService`, `StartListens`, `EveryClientServed`, `EveryEndReleases` |
| `TcpServerRoundRobin` | MCTcpServer | `OnSubLoop` violated | | with loop threads, connections live on the base loop |
| `ThreadPoolLifecycle` | MCEventLoopThreadPool | pass | 7367 | `TypeOK`, `LoopsUsable`, `ThreadsJoined`, `NoLostSignal`, `StartReturns`, `DestructorEndsLoops` |
| `ThreadPoolDestructor` | MCEventLoopThreadPool | `DestructorReturns` violated | | `loop()` resets `quit_`: the quit of a destructor that came before is lost, and `join` hangs |

The violations are disagreements between the code and its own comments; `findings` quotes
the comments. `TcpConnectionStale` and the exception in `BacklogSent` are the two ends of one line,
`Buffer.cc:50`, where the length of the write is the free space and not what is stored: with more
space than contents stale bytes go out, and of a buffer that is filled to its end nothing ever does.
`ImplementsByteStream` says what is left of the stream in spite of the first: no byte that was taken
is lost, sent again in its turn or overtaken by a FIN, and the stale ones never come before bytes
that wait.

Bounds, and why they are enough.

* EventLoop: two threads, so that one can be between its push and its wakeup while another
  passes both; three functors, one in the batch, one pending, one running; one channel; an
  eventfd that holds at most 2, so that the limit is reached; two calls per outermost callback.
* Poller: two channels on two fd numbers, each channel may be destroyed and constructed again
  on either fd; an event list of 1 that must grow when both are ready; input, room for output
  and hang-up as conditions.
* BufferData: one byte of prepend, two of initial size, an extra buffer of two and at most
  three bytes at a time in at most seven: moves, growth, a readFd that spills and one that does
  not, and a buffer filled to its end all happen.
* TcpConnection: the same buffer with an initial size of two or four, a send buffer of one or two
  bytes and strings of one and three, so that a send is complete, partial or stored
  (the empty string is in the `Stale` run and in the proofs; with `Lens <- MCLens013` the `Lifecycle`
  run has no error in 1319358 states, but takes half as long again); a high-water
  mark of 2 that is crossed; one or two sends; one application thread in the `Lifecycle` and
  `Revived` runs; the optional callbacks both set or both unset in the `Lifecycle` run.
* TcpServer: three clients and fds for two, so that one waits while two are up, and one ends in the
  same batch in which another is refused; one thread besides the base loop's that calls `start()`;
  no or one loop thread, as no connection gets to one. `TcpServerRoundRobin` has up to two.
* EventLoopThreadPool: three threads, so that one may be ending, one looping and one starting
  when the owner is at any point; one suffices for the lost quit.

No deadlock check have: the two runs of the pool, which may be gone in the end;
`TcpConnectionLifecycle`, where the process may be lost (a functor bound to a destroyed
connection, an unset `writeCompleteCallback_`); the runs of `TcpServer`, where every client may
have ended and the loop sleeps. In `TcpConnectionLifecycle` the claims `NothingDangles` and
`EndIsFinal` are for connections that no thread was given (`shared`), `RemovedBeforeDestroyed`
also for others as long as the server lives. With two threads the last one fails along the path of
`TcpConnectionRevived`: the late `sendInLoop` registers the removed channel again.

Fairness. `EventLoop`: weak fairness of the loop thread's own steps, and of the eventfd write
of a thread that is inside `queueInLoop` or `quit`: both are threads the scheduler runs, and a
callback is assumed to return. The timeout of `epoll_wait` is not fair, so that nothing is shown
with its help. `Poller`: the loop polls and handles what it got. `TcpConnection`: the loop
thread runs; `ShutdownCompletes` and `BacklogSent` also assume a peer that goes on reading, since
without one nothing could be sent. `TcpServer`: the loops
and the callers of `start()` are threads the scheduler runs, `main()` calls `loop()`, and no
client stays for ever: without the last, `EveryClientServed` cannot hold for more clients than
fds. `accept` is not fair by itself: that the listening channel is handled follows from its
place in the batch. `EventLoopThreadPool`: the owner, once it is in `start()` or in the
destructor, and every thread take their steps; a loop that was told to quit leaves `epoll_wait`
only if its eventfd was written, so that `DestructorEndsLoops` rests on `quit()`'s wakeup.

## 4. The proofs

All for every value of the constants that satisfies the named assumptions
(`EventLoopAssumption`, `PollerAssumption`, `BufferAssumption`, `BufferDataAssumption`,
`PoolAssumption`, `TcpServerAssumption`, `TcpConnectionAssumption`): any number of threads,
functors, channels, clients, any size of a buffer. `Channel_proofs` and `Buffer_proofs` hold
what several of the proofs need: every operation on a channel's record keeps index, mask and
the kernel's entry together (`GoodChannel`), every operation on a buffer's indices keeps them
in order and inside the vector (`Good`), and what each does to the number of readable bytes.

* `EventLoop_proofs`: `TypeCorrect`, `NoLostWakeupHolds`, `Refinement` (`EventLoop` implements
  `FunctorQueue`). `NoLostWakeup` speaks of a loop in `epoll_wait`; it becomes inductive with
  `WakePhase`, which says where pending functors without a coming wakeup can be: in `dispatch`,
  whose swap is still to come, or queued before `loop()`. That in turn needs `BatchPhase`
  (`callingPendingFunctors_` and a non-empty batch only in `run`) and `CallbackPhase` (when
  callbacks can be running): a `queueInLoop` without a wakeup comes from a channel's callback,
  before the swap. `WakeupStays` says that a written or coming wakeup is not undone: the eventfd
  counter never goes down, and it serves the other half, `QuitWakes`, too: `epoll_wait` is
  entered with `quit_` false, and while the loop is in it only another thread sets `quit_`,
  whose wakeup is then still to come. The refinement proof has one lemma per kind of step, on
  how the concatenation `functors \o pendingFunctors` changes.
* `Poller_proofs`: `TypeCorrect`, `InterestAlwaysInSync`, `MapAlwaysInSync`. The first two
  follow from the lemmas on single channels; the map needs in addition that live channels have
  different fds.
* `BufferData_proofs`: `IndicesAlwaysOK`, `TypeCorrect`, `Refinement` (`BufferData` implements
  `ByteQueue`). `makeSpace` is where the indices could leave the vector;
  `readFd` must end with room for what it appended. The refinement rests on `DataInv`: what lies
  between the indices are bytes that were put in, never bytes that were not written. One lemma
  per operation says, place by place, where the contents are afterwards (`MovedAt`, `CopiedAt`,
  `AppendedBytes`, `ReadBytes`); `PutsBehind` and `TakesFront` turn that into a step of the
  queue.
* `EventLoopThreadPool_proofs`: `TypeCorrect`, `LoopsStayUsable`, `ThreadsAlwaysJoined`,
  `NoSignalIsLost`. That `sem` never exceeds 1 needs `SemOwned`: only the thread the owner waits
  for can be about to post. `PoolInv` says where each thread is relative to the owner's counter
  (`NotCreated`, `Published`), when `loop_` is set (`LoopPointer`), and who told a loop to quit
  (`QuitBy`): the application, or the destructor at its own thread. `ThreadsJoined` follows
  since the destructor skips `join` only where `loop_` is null: by `LoopPointer` and `Published`
  that is a thread that has left its loop, and by `QuitBy` the application had told it to.
  `NoSignalIsLost` is the safe half of `StartReturns`: whoever waits at the semaphore or at
  `cond_` has the signal before him, because `Created` places the one thread that can give it.

* `TcpServer_proofs`: `TypeCorrect`, `MapHasOneThread`, `MapIsWhatIsUp`, `RemovedFirst`,
  `OneStart`, `NothingIsLost`, `EveryoneIsWatched`, `Refinement` (`TcpServer` implements
  `Service`). `MapInv` is the centre: a connection in `connections_` is up and registered, one
  that is not is off epoll, and if its `Channel` is still known to the poller then its
  `connectDestroyed` is still to run. It is kept because what a loop has still to handle belongs
  to connections in the map (`ActiveInv`: a handler that ended one earlier in the same batch
  took it out of what is left) and because a queued `connectDestroyed` only finds connections
  that have ended (`FunctorInv`). `StartInv` has the race of `start()`: until the pool is
  started (`Early`) nobody listens, and one caller at most starts it. `ForeignInv` says what a
  `start()` from another thread can leave behind. `WatchInv`, a second inductive invariant
  beside it, is what the liveness properties rest on: a listen that has been asked for is on its
  way (`ComeInv`), who waits does so at a listening socket whose channel has `EPOLLIN`
  (`AcceptInv`), so has each connection in `connections_` (`ReadInv`), and who has come waits or
  was told (`ToldInv`). In the refinement a client that connects arrives, `accept` with its
  `newConnection` serves the head of the backlog, `handleClose` ends a connection and the
  destructor stops the service; all other steps stutter.
* `TcpConnection_proofs`: `TypeCorrect`, `AlwaysWatched`,
  `EndAlwaysReported`, `NothingEverDangles`, `RemovedFirst`, `EndAlwaysFinal`,
  `RemovedWithOneThread`, `Refinement` (`TcpConnection` implements `ByteStream`), with one lemma
  per action. For a connection that threads use as well, the invariant has `OutputInv` (stored
  bytes are watched for while the connection is up, are those taken and not sent, and do not wait
  behind a FIN) and `MapInv` (a connection the application was told of is in the map until the end is
  told; a queued `connectDestroyed` means that it was). For one that no thread was given
  (`~shared`) it has in addition `EventsInv` (what is left of the reported events: after an
  `error` that ended the connection, `handleRead` finds the error and does not end it again; a
  hang-up comes with input) and `EndInv` (a connection that has ended is off epoll, and off the
  poller when `connectDestroyed` has run). Both are false once a thread has the connection: its
  late functor registers the removed channel again (`TcpConnectionRevived`). So `RemovedFirst`
  speaks of `~shared` only.

  `RemovedWithOneThread` adds the connection that one other thread uses, which is the case that the
  run checks. Its hypothesis, that any two members of `Threads` are equal, is needed: with two, one
  may take `kDisconnected` back to `kDisconnecting` with a late `shutdown()`, and the `sendInLoop`
  that the other has queued registers the channel once more, behind `connectDestroyed`. `LateInv`
  says why one thread cannot: its late `shutdown()` comes after its last `send` had passed its
  test, so each `sendInLoop` that could find `kDisconnecting` was queued before the end and has a
  `connectDestroyed` behind it (`SendsFollowed`), which removes the channel whatever was done to it.
  In the refinement of `ByteStream` a direct write needs that nothing waits, which `sendInLoop`
  tests itself (`WritesDirectly`). That a write of stale bytes comes only after bytes had to wait is
  the interest in `EPOLLOUT` (`buffered`), which is set with the first stored byte. Behind the FIN `write()` fails, and `sendInLoop` then drops the
  bytes: but only if it comes to the `write()`, that is if nothing waits, and that is `OutputInv`.
  `FinAfterBacklog` and `NothingEverStoredAfterFin` state these two parts by themselves.

Only model-checked: liveness, which is out of the prover's reach: `EveryFunctorRuns`,
`EventsNotStarved`, `QuitWhileLoopingStops`, `InputServed`, `PeerEndDestroys`, `BacklogSent`, `StartListens`,
`EveryClientServed`, `EveryEndReleases`, `StartReturns`, `DestructorEndsLoops`. Of most of them
the safe half is proved, that whoever waits has something on its way to end it: `NoLostWakeup`,
`NoLostSignal`, `StaysWatched`, `StartedOnce`, `EveryoneWatched`, `InterestInSync`. What is left
to TLC is that the steps which these promise are taken.

## 5. Seen in the code, without a run

* `queueInLoop` by the loop's own thread before `loop()` does not wake the loop; the functor
  waits for an event or the 10 s timeout (`EventLoop.cc:113`). `NoLostWakeup` excepts it.
* `disableAll` on a channel that is off the poller registers it with an empty mask
  (`EPollPoller.cc:66`). The Acceptor's destructor does so if the server never listened, and takes
  it off again in the next line (`Acceptor.cc:37`); `EveryoneWatched` of module `TcpServer` says that
  no such registration is left behind by the server.
* `sendInLoop` tests for `kDisconnected` only (`TcpConnection.cc:186`): a `send` that passed its test
  before `shutdown()` is still served in `kDisconnecting`, where the comment above it says that after
  a `shutdown` nothing more can be sent. `ByteStream` has it so: until the FIN.
* with `numThreads_ = 0` the first accepted connection reads `loops_[0]` of an empty vector
  (`EventLoopThreadPool.cc:41`). `NothingDangles` of module `TcpServer` excepts it.
* the destructor of `EventLoopThread` may use a loop that has just ended (`EventLoopThread.cc:17`):
  `opc = "undefined"`, which `DestructorEndsLoops` accepts.
* `revents_ & (EPOLLIN || EPOLLPRI)` is `revents_ & 1`: urgent data alone runs no callback and
  stays pending, although `kReadEvent` asks for it (`Channel.cc:75`). The model has the test as it is.
* `startLoop` waits for ever if the application ends a loop before `startLoop` has seen it
  (`EventLoopThread.cc:29`, `55`). `StartReturns` excepts it.
* an error and input reported together: the message callback runs after the application was told
  that the connection is down (`Channel.cc:67-81`). `EndIsFinal` says that it is told once.
* of an output buffer that is filled to its end `writeFd` writes 0 bytes, and nothing is ever sent
  (`Buffer.cc:50`), where the comment in `sendInLoop` says that `handleWrite` sends all of it
  (`TcpConnection.cc:223`). `BacklogSent` excepts it.
* correcting the test of `getNextLoop` alone would put `removeConnectionInLoop` on loop threads,
  as `closeCallback_` calls it directly, while the base loop changes `connections_` too
  (`TcpServer.cc:95`). `MapOnOneThread` holds in the code as it is, and fails with that correction.
* a server destroyed before the base loop has run the `listen` that another thread's `start()`
  queued leaves a dangling `Acceptor` in the functor (`TcpServer.cc:54`). `NothingDangles` of module
  `TcpServer` excepts a `start()` from another thread.
* a half-closed connection that the destructor of the server ends is not reported as down:
  `connectDestroyed` tests for `kConnected` only (`TcpConnection.cc:83`). `Service` allows it.
* a server destroyed while a thread uses one of its connections: a late `sendInLoop` registers the
  removed channel again. `RemovedBeforeDestroyed` of module `TcpConnection` excepts it.

## 6. Not modelled, and the plan

Not modelled: `InetAddress`, `Timestamp`, `CurrentThread`, `noncopyable`, `DefaultPoller`
(conversions and constants), the options of `Socket`, build files. `Logger`: nothing reads its
state but `log()` itself; two threads that log can exchange the tags of their lines
(`Logger.h:22`, `25`), and no other component's behaviour depends on it.

Every component with state that another one depends on is modelled, and every invariant and
safety property of the runs is proved. Not covered by a property, and why,
are the hazards with a `note` in `PROJECT.json`; section 5 has the ones worth knowing.
