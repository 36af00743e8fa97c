# SoL: a verification project

SoL is a small C++ network library in the style of muduo: an epoll reactor
(`net/`), a main reactor that accepts connections and hands them round robin to
worker reactors, and a base library (`base/`) with threads, locks, dates and a
logger that writes from a thread of its own. This directory holds TLA+ models of
the parts that are hard to test, the TLC configurations that check them and
TLAPS proofs of their main invariants. Line numbers refer to the files of the
repository.

## 1. Inventory

| part | state | operations | shared with | what makes it correct |
|---|---|---|---|---|
| `EventLoop` (net/EventLoop.cpp) | `pendingFunctors_` (under `mutex`), `callingPendingFunctors_` (a plain bool), `activeChannels`, the eventfd | `loop`, `queueInLoop`, `doPendingFunctors`, `wakeup`, `handleRead` | every thread that holds the pointer | functors run once, in order, soon; a sleeping loop is woken |
| `Epoll` (net/Epoll.cpp), `Channel` (net/Channel.h) | `fd2chan_[MAXFDS]`, the epoll set; a channel's fd, event masks, callbacks | `epoll_add/mod/del`, `poll`, `getEventsRequest`; `handleEvents` and the setters | the acceptor writes `fd2chan_` of a worker that is polling | an event always finds its channel, and no earlier user of the descriptor |
| `Server` (net/Server.cpp) | listen socket, `acceptChannel_`, the pool | `start`, `handNewConn`, `messageCallback` | all worker loops | every accepted connection is in exactly one loop, none is forgotten |
| `EventLoopThread`, pool (net/EventLoopThread*.cpp) | `loop_`, `mutex_`, `cond_`, `next_` | `startLoop`, `getNextLoop` | main thread and worker | `startLoop` returns a loop that exists |
| `Client` (net/Client.cpp) | socket, channel | construction, `start` | its loop | - |
| `readn`, `writen`, socket set-up (net/Util.cpp) | the caller's string | loops over read and write | handlers | bytes not lost or repeated |
| `TimerManager` (net/Timer.cpp) | heap of timers | `addTimer`, `handleExpiredEvent`, `clearReq` | not used by the reactor any more | timers expire once, not early, and do expire |
| `AsyncLogging` (base/async_logging.cpp) | two spare buffers, the current one, the vector of full ones, the latch | `append`, `threadFunc`, `start`, `stop` | all logging threads, the backend | no line lost or reordered, the buffer assertions, shutdown |
| `LogFile`, `AppendFile` (base/log_file.cpp, file_util.cpp) | file, `count_`, `startOfPeriod_`, `lastRoll_`, `lastFlush_` | `append`, `rollFile`, `flush` | the logger's backend | rolls at size and at midnight, flushes in time |
| `Logger` (base/Logging.cpp) | level, zone, output and flush functions; per thread the text of the last second and the thread number | the statements, the setters | any thread; fork | a line's head is current, a line is whole, a FATAL line gets out |
| `LogStream`, `FixedBuffer` (base/log_stream.*) | buffer of 4000 bytes | `append`, `<<` | a Logger | nothing written past the buffer, numbers as their values |
| `Date`, `TimeZone`, `Timestamp` (base) | a zone's transitions | conversions | the logger | inverse of each other, civil calendar, order |
| `Thread` (base/Thread.cpp), `Mutex`, `Condition`, `CountDownLatch` | the pthread objects, a `ThreadData` block per thread | start, join, destruction; wait, notify, lock | everything | no block or handle lost or used after its end |
| `ReadSmallFile` (base/file_util.cpp), `ProcessInfo`, `StringPiece` | buffer; thread-local results of a directory scan; pointer and length | reads of /proc, comparisons | the log file's name | what is read is there |
| echo programs (echoServer.cpp, echoClient.cpp) | per connection nothing | one message per event | `Server`, `Client` | each message echoed once |
| Ver0.1 (Examples/Ver0.1) | thread pool with a ring queue, HTTP parser, timer heap | accept, hand over, parse, answer, expire | main thread and pool | nothing used after it is deleted, queue order, shutdown, requests cut anywhere |
| `SimpleEpoll_1`, `epoll_ET`, `epoll_client` (Examples) | a block per registration; a connection's edge | one event at a time | each other | no stale block, an answer to whoever is watched |

The hard behaviours are: the unlocked flag of `queueInLoop` against the loop;
edge-triggered events that are reported once; the acceptor writing a worker's
table while the worker polls; the hand-over of buffers between loggers and
backend; the start and stop handshakes of threads; clocks that go round or back;
caches that a fork or a setting makes stale; requests and files read in pieces
while they change; objects shared by raw pointers between threads.

## 2. Modules

| module | models | checked by | proofs |
|---|---|---|---|
| `FunctorQueue` | what a queue of work promises: each element executed once, in order, eventually | through `EventLoop` and `ThreadPool` | - |
| `EventLoop` | net/EventLoop.cpp with the poller and the eventfd | `MCEventLoop` | `EventLoopProofs` |
| `Server` | net/Server.cpp, `getNextLoop`, `epoll_add`, the workers' `poll` and dispatch, clients | `MCServer` | `ServerProofs` |
| `LoopThreadPool` | net/EventLoopThread.cpp and the pool's `start` | `MCParts` | `PartsProofs` |
| `Epoll` | the poller's table and the channels' masks beside the kernel's interest list | `MCParts` | `PartsProofs` |
| `Util` | net/Util.cpp: the `std::string` overloads of `readn` and `writen`, socket set-up of `Server` and `Client` | `MCParts` | `PartsProofs` |
| `Thread` | base/Thread.cpp: object, block and handle | `MCParts` | `PartsProofs` |
| `ReadSmallFile` | base/file_util.cpp: `readToString`, `readToBuffer` | `MCParts` | `PartsProofs` |
| `ProcessInfo`, `StringPiece` | base/process_info.cpp, base/string_piece.h | `MCParts` | `PartsProofs` |
| `Echo` | echoServer.cpp, echoClient.cpp, net/Client.cpp, `readn`, `writen`, stream sockets | `MCExamples`, `MCEcho` | `ExamplesProofs` |
| `Timer` | net/Timer.cpp | `MCExamples` | `ExamplesProofs` |
| `SimpleEpoll` | Examples/SimpleEpoll_1.cpp and its clients | `MCExamples` | `ExamplesProofs` |
| `EpollET` | Examples/epoll_ET.cpp, epoll_client.cpp and other clients | `MCExamples` | `ExamplesProofs` |
| `AsyncLogging` | base/async_logging.cpp, `FixedBuffer`, latch, condition and thread as it uses them | `MCAsyncLogging` | `AsyncLoggingProofs` |
| `LogFile` | base/log_file.cpp, `AppendFile` | `MCLogFile` | `LogFileProofs` |
| `Logger` | base/Logging.cpp, the cached thread number of base/Thread.cpp | `MCLogger` | `LoggerProofs` |
| `LogStream`, `CInt` | base/log_stream.*; C's integer division | `MCLogger` | `LoggerProofs` |
| `Date`, `TimeZone`, `Timestamp` | base/date.cpp, timezone.cpp, timestamp.*; `gmtime_r` and `timegm` of the C library, by counting leap years and a table of months | `MCLogger` | `LoggerProofs` |
| `ThreadPool` | Examples/Ver0.1/threadpool.cpp | `MCHttpServer` | `HttpServerProofs` |
| `HttpRequest` | the parser of Examples/Ver0.1/HttpData.cpp | `MCHttpServer` | `HttpServerProofs` |
| `HttpServer` | Examples/Ver0.1/main.cpp, the rest of HttpData.cpp, epoll.cpp, utility.cpp; composes `ThreadPool` and `HttpRequest` | `MCHttpServer` | `HttpServerProofs` |

`MCParts` and `MCExamples` put parts that do not interact into one run: a
behaviour is one of a single part, and the properties of the others hold of
their initial state.

Variables keep the names of the members they stand for (`pendingFunctors_`,
`fd2chan_`, `currentBuffer_`, ...). A variable whose name ends in `Pc`, or
`backend`, `control`, `starter`, `worker`, is the place in the code where a
thread is. Variables commented "history" are not in the code; they only record
what happened, so that a property can speak about it, and no guard of an action
reads them except to bound a run. `PROJECT.json` maps each definition to its lines.

### EventLoop

The loop thread goes through `EnterPoll`, `PollReturn` or `PollTimeout`, one
`HandleEvents(c)` (or `HandleRead`, for the eventfd) per active channel,
`BeginPending` (the flag), `SwapFunctors` (under the mutex), `RunFunctor` and
`EndPending`. `queueInLoop` is three steps of any thread, the loop's own
callbacks included: `QueueInLoop` (push_back under the mutex), `CheckCalling`
(the read of the plain bool `callingPendingFunctors_`, after the mutex is
released) and `Wakeup`. The read is a data race: a thread other than the loop's
may see the value before or after a write it is not ordered with, and
`VisibleCalling` is the set of values it can see. The ready list is
edge-triggered: `poll` takes a channel off it. The refinement mapping to
`FunctorQueue` is `waiting <- functors \o pendingFunctors_`: a functor leaves the
abstract queue when its call begins.

### Server

`handNewConn` is one step per call that another thread can observe or that can
fail: `EnterHandNewConn`, `Accept` (with `getNextLoop`) or `AcceptFails`,
`TooManyFds`, `NewChannel` or `NonBlockingFails`, `EnterTable`, then `EpollAdd`
or `EpollAddFails`. Workers take `Poll` and `HandleEvents`; the clients connect,
send, close and reset. accept may fail at any time, with connections queued.
Descriptors are the lowest free number, as POSIX says, and none of an accepted
connection is given back except by `TooManyFds`: nothing else in the library or
its servers closes one. The empty functor that `handNewConn` queues after
`epoll_add` is left to `EventLoop`.

### LoopThreadPool

`EventLoopThreadPool::start` makes `NumThreads` threads one after another;
`startLoop` creates the thread and waits on `cond_` until `loop_` is set,
with spurious wakeups; `threadFunc` constructs its loop, publishes it under the
mutex, notifies and enters `loop()`, which never returns. Creation fails
silently (`Thread::start` logs), and then `startLoop` waits for ever: the
liveness property says so. `Destroy` is `~EventLoopThread`.

### Echo

A client's `connectionCallback` writes one byte of length and the data; the
server's `echoServerRead` reads the length, then the data, with `readn`, and
writes back what it read with `writen`; the client reads likewise.
`readn` returns short at EAGAIN and at end of file. A socket is bytes in
flight (`wire`), a receive buffer (`rcv`) and an edge. Whether one `write`
arrives in one piece is the constant `Segmented`: TCP promises nothing, and the
two runs compare the two cases.

### AsyncLogging

A buffer is the sequence of lines copied into it, each with the number of bytes
copied (a line that does not fit is cut, `FixedBuffer::append`), and its length.
`append` is one step per branch, enabled while nobody owns `mutex_`. `threadFunc` is
`ThreadEntry`, `LoopTest`, `Lock`, `WaitForSeconds` or `TakeBuffers`,
`DropBacklog`, `WriteBuffer`, `Recycle`; the controlling thread is `Start`,
`LatchWait`, `Stop`, `Join`. `mutex_` has an owner, because
`Condition::waitForSeconds` locks it a second time. The notice that replaces
dropped lines in the file is left out; the flushes after a round and at the end
are the file's own matter (`LogFile`). The loop ends as soon as `running_` is
false: lines that are still in `buffers_` or `currentBuffer_` then are never
written, and `LinesAccounted` counts them as buffered.

### LogFile

`append_unlocked` splits into four actions by what happens after the line is
written: the file is full (`AppendFull`), it is not time to look at the clock
(`AppendOnly`), the clock shows another period (`AppendNewPeriod`) or the same
one (`AppendSamePeriod`). `RollFile` refuses unless the clock is past the second
in which the current file was opened. `Tick` and `StepBack` are the wall clock.
A line is its length. The two reads of `time(NULL)` in one append are taken as
one second. `forbit_write_`, set when the disk is nearly full, makes `append`
count a line that it does not write.

### Timer

The clock is a number of milliseconds; `ExpiryTime` is what the constructor of
`TimerNode` computes, the clock modulo `Cycle` plus the timeout, and `isValid`
compares it with the clock modulo `Cycle`. `handleExpiredEvent` pops one node
per step, since other threads could see the heap in between, and stops at a top
that is neither deleted nor expired.

### SimpleEpoll and EpollET

`SimpleEpoll` is level-triggered: an event carries a pointer to a block that
belongs to a registration, and `run_action` frees it when it closes the
connection. `Watch` is `EPOLL_CTL_ADD`, whose result nobody looks at: it may fail,
and the block stays without a registration for ever. One `read` takes at most
`BufSize` requests; a connection that is closed over unread bytes is reset, and
its answer may be lost (`cutOff`). `EpollET` is edge-triggered: an edge is put on the ready list when
bytes or an end arrive and is taken by `EtWait`; per edge the server accepts one
connection or reads one byte. In both, connections are accepted, reset and
closed by their clients at any time. `do_write` counts before it writes, and a
write that fails (the server has gone) leaves `EPOLLOUT` set, so that it is tried
again, or raises SIGPIPE. What is undefined in
`epoll_client` (a memset over its own stack) is a choice: it dies or goes on.

### Epoll, Util, Thread, ReadSmallFile, ProcessInfo, StringPiece

`Epoll` lets the code around it call `epoll_add`, `epoll_mod` and `epoll_del` in
any order, with system calls that fail and descriptors that are closed and used
again. A channel that is registered may be added again, and one whose descriptor
was closed keeps the number and may still be modified, deleted or added
(`channelFd`; `ownerOf` is who has the descriptor open). `Util` takes one `read` or `write`
per step; the network delivers, is full, ends or breaks in between. `Thread`
has one owner who keeps to the assertions, and threads that outlive their
object. In `ReadSmallFile` somebody appends to the file, or truncates it or writes
it anew, between two system calls; a byte is known by its place and its version.
`ProcessInfo` reads a directory entry by entry while threads
come and go, with the thread-local pointers as variables per thread; `scandir` may
fail at once or after some entries, and the file `stat` may not be readable.
A piece of `StringPiece` is a string of `Memory`, where it begins and its length.

### Logger

A statement is `Construct` (the head: `formatTime`, the thread number, the
level), then `StreamText`, `StreamNumber` and `StreamPointer`, then `Destroy`
(`finish`, output, and for FATAL flush and abort). A stream is the number of
bytes used, the furthest byte written to and whether a piece was left out.
`convert` and `convertHex` are the code's loops over the digits table,
recursively; the numbers are checked by reading the digits back. `TimeZone` reads a zone from a file that may be cut off, and finds transitions as
`lower_bound` and `upper_bound` do; `Date` is the integer arithmetic of the source. The C library's
`gmtime_r` and `timegm` are written from the rules of the calendar, and the
project's own functions are compared with them. `addTime` takes a double: the set
of its results holds the exact one and the one a microsecond nearer to zero. The
text of a time stamp is its fields, and texts are compared as characters are:
`toString` does not pad its seconds, so numbers of different width compare by their first digits (`StringEarlier`).

### ThreadPool, HttpRequest, HttpServer

Everything in the pool is done under `mutexLock`, so a critical section is one
step. The ring is `queue`, `head`, `tail`, `count`; `TasksInOrder` is its
refinement of `FunctorQueue`. `HttpServer` runs the main thread (`WaitEvents`,
`Accept`, `HandleError`, `HandleIn`, `Expire`), the pool's threads and the
clients. `accept` may fail with connections queued. A request is a sequence of
symbols in which separators are symbols of
their own and words are one symbol; `parse_URI` looks for GET and POST anywhere in
the line, inside of words too, and for a version at the beginning of a word: the
constants `HasGET`, `HasPOST` and `HasVersion` say in which words these occur; the client sends it in two segments, cut
anywhere, and `parse_URI` and `parse_Headers` keep the state machine of the
source. `tests/HTTPClient.cpp` is one of the clients. What a client means by
its symbols is said by the grammar at the end of `HttpRequest` (`IsRequest`:
a line, fields, a blank line and a body, with the method where it belongs,
`IsClear`; `IsFragment`: part of a line), which is
independent of the parser. Clients may send anything (`PlansAssumption`);
`RequestUnderstood` is about those who mean what the grammar says (`IsMeant`).
Requests like `POST /WIDGET HTTP/1.1`, in which GET is not the method but is found, are run but not spoken about: the code
refuses this one, and takes `POST /WIDGET/x HTTP/1.1` for a request for `x`.

## 3. Runs

| run | configuration | properties | what it shows |
|---|---|---|---|
| `loop` | `MCEventLoop.cfg`: 3 functors, 2 other threads, one channel and the eventfd, `EVENTSNUM` 1; 97 930 states | `TypeOK`, `SleeperIsWoken`, `NothingLeftBehind`, `RunsInOrder`, `RunsAll` | a functor queued while the loop sleeps wakes it; none waits through two polls; the loop refines `FunctorQueue`, with its liveness |
| `loop_sleeps_on_work` | `MCEventLoopSleep.cfg` | `NeverSleepsOnWork`, violated | a functor queued while `doPendingFunctors` runs gets no wakeup: it waits for the next event or for the 10 s of `kPollTimeMs` |
| `server` | `MCServer.cfg`: 3 clients, 2 workers, `MAXFDS` 3, 3 descriptors; 289 783 states | `TypeOK`, `EventFindsChannel`, `OneOwner`, `QueueDrained`, `ArrivalIsHandled` | no event without a channel, one owner per connection, the accept queue is drained, and the message callback is called for whatever arrives on a registered connection |
| `server_limit` | `MCServerLimit.cfg` | `LimitIsOnConcurrent`, violated | the test against `MAXFDS` limits the connections ever accepted, not the concurrent ones |
| `parts` | `MCParts.cfg`: 4 loop threads; 2 `Thread` objects; 2 channels on 2 descriptors; streams of 4 bytes through buffers of 2; files of up to 5 bytes, rewritten up to twice; two pieces over four strings; two threads that list three; 226 806 states | `LoopsAreLive`, `NotifyNotLost`, `StartReturns` | the hand-over of the loop pointer and its wakeup |
| | | `ThreadAccounted` | no `ThreadData` and no handle is lost or used after its end, also when `pthread_create` fails |
| | | `PollerAgrees` | an event reaches the channel the kernel watches for, or is dropped after a second `epoll_add`; who set a mask knows it; through failures, stale channels and reuse of descriptors |
| | | `HelpersKeepTheirWord` | `readn`, `writen` and the set-up of sockets over short transfers and failures |
| | | `ReadIsWhole` | every byte is in its place although the file changes; old bytes precede newer ones, and there are none if it was not rewritten; the terminating null has room |
| | | `ComparesBytes` | the comparisons of `StringPiece` are the dictionary's order on unsigned bytes and look at nothing past the end |
| | | `InfoIsTrue` | directory scans of two threads do not mix, and failing ones invent nothing; a process's name may contain parentheses |
| `examples` | `MCExamples.cfg`: echo messages of 3 and 2 bytes, unsegmented; 2 timers over more than two cycles; 2 clients of `SimpleEpoll_1`, of up to 2 requests; one `epoll_client`, which tries up to 3 times, and one other; 128 473 states | `EchoIntact`, `EchoReturns` | messages that arrive in one piece come back whole, and do come back |
| | | `TimersInTime` | no timer runs out early; those of this cycle that are due are gone after a sweep |
| | | `BlocksLive`, `SentIsAnswered` | no event of a batch leads to a freed block; who has sent is answered once, if `epoll_ctl` added its socket and no byte of it is left unread |
| | | `EventsMeanWhatTheySay` | a connection is closed after its last byte; the client gets one message out, and tries again only when the server has gone |
| `echo_segmented` | `MCEchoSegmented.cfg` | `EchoIntact`, violated | a message that arrives in two pieces is answered twice, wrongly |
| `logging` | `MCAsyncLogging.cfg`: 5 lines of 1 to 4 bytes, buffers of 3, `DropLimit` 2; 40 131 states | `SparesSuffice`, `StartedBeforeStop`, `LinesAccounted`, `StopReturnsUnlessStuck` | the code's assertions hold; lines are in the file or a buffer, once and in order, or were dropped by rule; shutdown blocks only in `waitForSeconds` |
| `logging_wait` | `MCAsyncLoggingWait.cfg` | `WaitForSecondsReturns`, violated | the backend deadlocks on its own mutex at its first idle wait |
| `logfile` | `MCLogFile.cfg`: 6 lines, almost two days of 4 s, `checkEveryN_` 3; 667 666 states | `OversizeOnlyInItsSecond`, `FewLinesLate`, `FlushedInTime` | rolling and flushing under a clock that jumps and is set back |
| `logger` | `MCLogger.cfg`: 800 instants around month ends, leap days, centuries and changes of summer time, five zone files, lines of up to 5000 bytes; 100 342 states | `HeadIsCurrent` | cached second and thread number against clocks set back, forks and settings |
| | | `TimesConvert` | the project's calendar is the C library's; local time and back; texts are ordered as times where their fields have the same widths |
| | | `LineArrives` | lines at the end of the buffer, least and greatest integers, abort |
| `http` | `MCHttpServer.cfg`: up to 3 connections, 2 threads, a ring of 2, requests cut at every place; 241 198 states | `TasksInOrder`, `PoolKeepsTasks`, `PoolServes` | the ring is a queue, no task is left to a sleeping pool, shutdown waits; a handler ends and a queued request is taken unless bodies are missing |
| | | `DeletedInTime` | the main thread deletes nothing the pool or the epoll set still has; the heap is swept |
| | | `RequestUnderstood` | a request means the same however it was cut, and is given up only when cut before the end of its headers |

Several properties are conjunctions of named parts (`ThreadAccounted` is
`DataHasItsThread /\ HandleGivenBack`, and so on): the parts are stated, with what
they mean, before them.

### Bounds

Every bound is a constant: `Functors`, `Lines`, `Conns` and `Clients` are used up
once each; `MaxLines`, `MaxNow`, `MaxClock`, `MaxStarts`, `MaxBytes`, `Requests`,
`StreamLen`, `MaxFile`, `MaxVersion`, `MaxTries`, `MaxPieces` and `MaxForks` cap what would go on for ever.
Three functors are one being run, one in the vector and one pending; two other threads are needed
for two callers between push and wakeup. `EVENTSNUM` 1 makes a full batch leave
an event behind. Three connections and `MAXFDS` 3 reach every branch of
`handNewConn`, and descriptors run out. Five lines, one of them larger than a
buffer and one that fits only an empty one, fill more than `DropLimit` buffers.
`DropLimit` 2 is the least for which the code's `resize(2)` is safe (25 in the
code). Six lines with `checkEveryN_` 3 reach the largest count of late lines
and still roll by size. The timers' clock goes round twice. Buffers of two bytes
for streams and files of four and five make a transfer take several pieces. A
ring of two wraps, and three connections overfill it. The logger's text sizes
leave exactly `kMaxNumericSize` bytes, one less, and none.
`kMicroSecondsPerSecond` is 10, so that the time stamps fit TLC's integers, and
`MaxStamp` is the last stamp that does. A `BufSize` of one request makes a second
request stay unread. In `HttpServer` `accept` fails at once or not at all while a
batch of connections is taken; what it leaves waits for the next client.
For the safety properties marked in section 4 the bounds do not matter.

`CHECK_DEADLOCK FALSE` stands where the bounded inputs end or the code itself
stops (a joined logger, a backend stuck on its mutex, a pool whose thread could
not be created, a server that ends or whose process dies). `EventLoop` is checked for deadlock: the loop can always poll.

### Fairness

Weak fairness of a thread's steps stands for a scheduler that keeps running a
thread that can run: the loop thread, each reactor, the backend, the starting
thread. The kernel's timeout of `epoll_wait` (10 s) is a step of the loop
thread. Nothing is assumed of callers of `queueInLoop`, of clients, of loggers
or of who starts and stops: they need not act. In `LoopThreadPool` the workers
have strong fairness, because the starter may take `mutex_` again and again
after spurious wakeups; a pthread mutex that is free infinitely often is taken
to be obtained in the end. In `Echo` bytes in flight are delivered in the end.
`SimpleEpoll`'s server keeps running, and `accept` does not fail for ever (strong
fairness). In `HttpServer` the main thread and the pool's threads run when they
can; a thread blocked on `mutexLock` gets it in the end.

## 4. Proofs

All for every value of the constants: any number of threads, clients,
descriptors, lines and tasks, and any sizes. The assumptions are the named
`ASSUME`s of the modules; they say that sizes are numbers, that a pool has a
thread and a ring a slot, that `DropLimit` is at least 2, that a message is a
length and as many bytes and fits `echoContent` and the socket's buffer, that bytes are 0 to 255
and integers have 64 bits, that thread numbers are positive, that a plan of
an HTTP client is a sequence of symbols with a place where it is cut (`PlansAssumption`),
that no separator contains a method (`WordsAssumption`), that
model values differ. TLC evaluates each of them on the instances of section 3.

* **`EventLoopProofs`.** `IInv` = `TypeOK`, the position of the loop determines
  flag, vector and nested calls (`Control`), what a round owes to functors
  queued before it (`Round`), and `SleeperIsWoken`. The last is not inductive
  without `Control`: while the loop sleeps, every caller must read FALSE. `NothingLeftBehind`
  needs that the swap finds the vector empty. Theorems `TypeCorrect`,
  `SleeperWoken`, `NoneLeftBehind`, and `RefinesFunctorQueue`: the loop
  implements the safety part of `FunctorQueue`, by two lemmas on
  concatenation.
* **`ServerProofs`.** `IInv` = `TypeOK`, queue entries are fresh, descriptors
  are distinct, table entries match descriptors, the interest list lies inside
  the table, and what `handNewConn` knows at each step (`Iteration`). Theorems
  `TypeCorrect`, `NoEventSkipped`, `OwnedOnce`; `QueueIsDrained`, whose property
  is inductive as it stands.
* **`AsyncLoggingProofs`.** `IInv` relates the mutex to the critical section and
  says that a missing `nextBuffer_` means that a full buffer waits; from
  there at least two buffers are written in a round and two spares can be
  recycled. Theorems `TypeCorrect` (with no buffer longer than `BufferSize`), `AssertionsHold`, `EntryAssertionHolds`.
  `LinesAreAccounted` is about the log as a row of parts: the file, the buffers
  of the round that are not written yet, those that wait, the current one. It
  needs beside `IInv` that no line was passed twice and how far the round has
  come (`LinesIInv`). Each action changes the row in one way (a line is added to
  the last part, a part is opened, parts are cut out, the first two become one),
  and a lemma per way shows that order, wholeness and completeness survive it.
* **`LogFileProofs`.** `late <= count_` and `tardy <= count_` hold because the
  clock is looked at whenever `count_` is reset; they need the order
  `lastRoll_ <= lastFlush_ <= now` and hold until the clock is set back.
  Theorems `TypeCorrect`, `SizeBounded` (for any clock), `DayIsKept`,
  `FlushIsKept`.
* **`HttpServerProofs`.** `IInv` = types, the slots from `head` on hold tasks
  and `tail` is behind them (`RingIsFull`), which threads exist at each position
  of the owner (`OwnerKnows`), and that none leaves before a shutdown or, in a
  graceful one, before the ring is empty (`NoneLeftEarly`). `PoolKeepsTasks` needs the
  last two: that somebody is awake while a task waits follows only if all
  threads are there. `RefinesFunctorQueue` needs the first: the ring,
  read from `head` round the end, is a sequence at whose ends `Add` and `Take`
  work. `ServerUsesPool` shows that every step of `HttpServer` is a step of the
  pool or leaves it alone, so that both carry over to the composition
  (`ServerTasksKept`, `ServerTasksInOrder`). `RequestsDeletedInTime` rests on
  `ServerIInv`: a connection is accepted once, whoever holds a pointer (epoll,
  a batch of events, a timer, the ring, a thread) holds that of a live request, and a
  request that was handed to the pool is none of the main thread's.
  `RequestsUnderstood` has two halves. The parser: `Understood(r, n, x)` lists
  what can have become of a `requestData` after n symbols of r (untouched, given
  up, refused, waiting for the body, understood). `ReceivedFirst` and `ReceivedMore` show
  that one pass of `handleRequest` gets from one to the next, wherever the
  message was cut; under them `ScanIs` follows the loop of `parse_Headers` symbol by symbol
  (`Scanned`: before, inside or after the fields, or refused), and `LineWords`
  and `UriIs` find the words of the request line where the grammar puts them. The server
  (`RequestIInv`): a handler gets only requests that no handler has returned from,
  because the pool holds a request once (`HeldOnce`) and nothing brings one back
  that has left it (`Finished`, `StepAhead`; EPOLLONESHOT is never re-armed).
  Clients may send anything; what is proved of a client's request needs that it is meant
  as the grammar says: a body as long as its Content-length, no key twice, and the
  method in its place only (`FindFirst` and `FindNone` then say what the search finds). Cut
  short or reset it may be at any symbol, and
  a wrong method, version, field or missing Content-length is covered. Of what other
  clients send the invariant keeps only that a `requestData` has its fields (`IsData`, `ReceivedData`).
* **`PartsProofs`.** For each part an invariant of its own.
  `ThreadsAccounted`: `started_` and `joined_` say what the thread and
  its handle are (`FlagsAreTrue`). `PollerAlwaysAgrees`: a channel keeps its descriptor's
  number, so that all its calls are about one entry, and a mask in the interest list was set by a
  channel with that number (`WatchedWasSet`). `HelpersAlwaysKeepTheirWord`:
  buffer, socket and peer hold adjacent pieces of one stream (`ReadStream`,
  `WriteStream`). `ReadIsAlwaysWhole`: the file is all of one version, and the string
  holds the bytes up to the offset, older ones first (`FileIsOneVersion`, `StringInOrder`). `PiecesCompareBytes`: pieces stay within their
  strings, and `memcmp` with the lengths is the dictionary's order.
  `InfoIsAlwaysTrue`: a caller's thread-local pointer is to its own vector, which
  holds what the scan has met, each once, and its counter is their number; any
  vector can be sorted; the words around the name are not the parenthesis
  searched for from their side. For the pool of loops, `IInv` says who holds each
  thread's mutex (`Held`), that `loop_` is set from the publishing step on
  (`Address`), what the starter knows of the current thread at each step
  (`Knows`), and which threads were collected and which do not exist yet; from it
  `TypeCorrect`, `LoopsLive`, `NoLostNotify`.
* **`LoggerProofs`.** `HeadsAreCurrent`: each cache holds what it would be filled
  with now, or is empty, or the zone was set after it was filled (`TidIsCached`,
  `TimeIsCached`). `LinesArrive`: the stream of a line stays within its buffer
  (`StreamOK`), from lemmas that `convert` and `convertHex` end, write at most 22
  and 19 digits and are read back as the number. `TimesAlwaysConvert` has three
  parts. *The calendar* (`UtcIsRight`): `getYearMonthDay` finds the year that starts
  on March 1, the day in it and the month (`MarchDates`, by centuries of 36524 1/4
  and years of 365 1/4 days), which is the year, month and day that contain
  the day (`DateIsCivil`); `gmtime_r` finds such a year and month too (`GmtimeIs`);
  and there is only one (`YearIsOne`, `MonthIsOne`). *The order of texts*
  (`StampsAreInOrder`): the fields of a later second are later at the first place
  where they differ (`FieldsOrdered`); for `toString` the seconds must have the same number of digits. *Local time* (`LocalRoundTrips`): `findLocaltime`
  (a `lower_bound`) finds the last transition not after a time (`FindsType`);
  where every transition switches an hour of summer time on or off, the local times of
  transitions more than an hour apart ascend as well (`HourZoneAscends`), the search by local time goes
  wrong only in the hour that comes twice, and there the correction by
  3600 seconds is made, and nowhere else. The assumptions: a zone file has a type for
  every transition, as a well-formed one does (`ZonesAssumption`), and
  times lie within 6000 years of 1970, where C's division is `\div`
  (`InstantsRange`; the model's arithmetic, and the proof, do not need it).
* **`ExamplesProofs`.** `TimersRunInTime`: due time and expiry time differ by
  whole cycles (`DuePerCycle`). `BlocksAlwaysLive`: the events of a batch are of sockets that are registered, and a client has
  a block only once it is accepted.
  `EventsAreUnderstood`: a client that wrote waits for the answer, and one that has tried in vain has lost its server (`AsksOnce`).
  `EchoIsIntact`: the message of a client is in exactly one of eleven places, from
  `out` over the wire and the server's variables back to `heard`, and each handler's
  position agrees with it (`EchoIInv`). Its hypothesis is `~Segmented`; with segments
  the property is false, as `echo_segmented` shows.

Where a proof is about all natural numbers it takes the least counterexample
(`LeastOf`, from the library's theorem on well-founded relations). That a
recursive function satisfies the equation that defines it is proved, once for all recursions along
which a measure decreases, by `SolvedUpTo`, `SolvedOnce` and `Solved`; the
digits of `convert` and `convertHex` and their reading back rest on them.

Only model-checked:

* every liveness property (`RunsAll`, `ArrivalIsHandled`, `StartReturns`,
  `StopReturnsUnlessStuck`, `EchoReturns`, `SentIsAnswered`, `PoolServes`): fairness is out of the
  prover's reach.

## 5. Findings and observations

Four runs show where the code does other than the repository says; they are
listed in `PROJECT.json` with the lines quoted: the missing wakeup
(EventLoop.cpp:95), the second lock in `waitForSeconds` (Condition.cpp:27), the
limit on connections (Server.cpp:70), and messages that arrive in pieces
(echoServer.cpp:60).

Read in the source, with no run of their own:

* The server stores a connection callback with each new channel, but
  `Channel::handleEvents` has the call commented out (net/Channel.h:97); nothing sets
  a write-complete callback.
* `errorHandler_` is never set: a connection that is reset stays in its loop's
  table and its descriptor stays open.
* The period of a log file is a day of UTC, the name of the file uses local time.
* `LogFile::flush` does not set `lastFlush_`, so that the next timed flush may
  come early; never late (`FlushedInTime`).
* `EventLoopThread`'s destructor joins a thread that cannot end; `startLoop`
  waits for ever when its thread could not be created.
* Logger: a zone file that is cut off before its types, or cannot be read, still
  gives a `valid()` zone without local times. `fromLocalTime` corrects itself by one hour, which is
  wrong for zones with summer time of half an hour. `setTimeZone` within the cached
  second leaves the text of the old zone (`HeadIsCurrent` excepts it). Near the
  end of the 4000 bytes numbers are left out while later text is still appended,
  and a full line loses its line end. `setOutput` without `setFlush` loses a
  FATAL line in `abort()`. `LOG_WARN` and above ignore the log level. Time stamps
  before 1970 have negative microseconds.
* Timer: a timer whose expiry time lies past the end of the cycle never expires
  (`DueAreGone` excepts it). `addTimer` does not take the lock.
* Util: `socket_bind_listen` leaks its descriptor when a call fails; after -1
  `writen` leaves sent bytes in the string, and -1 from `readn` hides bytes it
  has appended; `Client` does not notice a refused connection.
* Epoll: adding a registered channel again (EEXIST) clears its table entry while
  the kernel keeps the registration, and its events are dropped; nothing in the
  library does so (`TableIsCurrent`). A channel whose descriptor was closed keeps
  the number, and `epoll_mod` or `epoll_del` of it acts on the descriptor's new user;
  nothing in the library does that either.
* `ReadSmallFile` returns the error of `fstat` even though the content was read, and
  0 for a mixture of two versions of the file.
* `ProcessInfo`: a failing `scandir` goes unnoticed, and `threads()` is empty or
  short, `openedFiles()` 0 or too small.
* `Timestamp::toString` does not pad the seconds: `9.999999` sorts after `10.000000`.
* Ver0.1: threadpool.cpp:98 has a stray token and does not compile as it stands.
  Each thread is counted twice in `started`, so that `threadpool_free` refuses;
  a second `threadpool_destroy` returns with the mutex locked. The result of
  `threadpool_add` is ignored when the queue is full. Connections that were
  handed over are neither closed nor re-armed (HttpData.cpp:234-266 is commented
  out): a request that is cut before its headers end is never answered. SIGPIPE is not ignored. The method is looked for anywhere in the request line.
  A request without headers is not answered, an
  empty header value swallows the line end, and a POST may be answered with up
  to three bytes of its body missing (`AnswerFits`). A missing body keeps a pool
  thread busy. Timers are looked at only after an event. `stoi` may throw.
* SimpleEpoll_1: a read of 1024 bytes puts the terminating null behind the block. A
  socket that `epoll_ctl` fails to add is never answered, closed or freed.
* epoll_ET: one byte and one connection per edge; the rest may wait for ever.
  epoll_client's memset starts at the wrong address, and its buffer is
  uninitialised.

## 6. Not modelled

* `~EventLoop` (`loop()` does not return), `runInLoop` (it calls its argument),
  the setters of socket options (they pass their argument on).
* In `Echo` a message of more than the 20 bytes that `body` has room for
  (echoServer.cpp:28, :74), which the handler would write past (`MessageAssumption`).
* In `HttpServer` a failing `setSocketNonBlocking` (Ver0.1/main.cpp:84), after which the
  connection is used as a blocking one. In `SimpleEpoll` the SIGPIPE that writing to a
  connection the client has reset may raise.
* The formatting of doubles, of the log file's name and of `strerror` texts.
* The remaining functions of `process_info.cpp` hand on what one system call
  returns; `numThreads` searches for "Threads:" and would find it in a process's
  name too. `types.h` and `Atomic.h` are casts and wrappers of one instruction.
* Ver0.1's table of content types, which is filled under a lock but tested
  without it (HttpData.cpp:37): the outcomes of a race on
  `std::unordered_map` are not the code's to say. The picture a POST is answered with.
* Ver0.2 is a copy of `base/` and `net/`, with small differences in the client
  and the names of the files.
* pingpong: the server's handler is the echo server's (but uses an
  uninitialised length after a short read); the client does not compile as
  committed; the benchmark includes a header that does not exist and never
  registers its channels.
* `selectServer.cpp`, `SimplePoll.cpp` and `simplestServer.cpp` do not compile as
  committed, and `SimpleEpoll.cpp` is empty.

## 7. Plan

Done: the modules of section 2 and the proofs of section 4. What is left, in
this order:

1. A composition of `Server` with `EventLoop` that keeps the empty functor.
