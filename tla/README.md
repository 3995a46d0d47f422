# Specifications of uvcpp

uvcpp wraps libuv in C++ with an interface modelled on muduo: event loops that
own one thread each, a server that spreads its connections over a pool of
loops, a client with retries, and the queues and the thread pool around them.
This directory models it in TLA+ and checks the models with TLC and TLAPS.
Paths below are relative to the repository (`src/src/...` in `PROJECT.json`).

## 1. The system

### Components

| Component | State | Operations | Correct when |
|---|---|---|---|
| **EventLoop** (`EventLoop.*`) | `run_`, libuv's stop flag and async handles, timers | `run`, `stop`, `runInLoopThread`, `runAt/After/Every`, `cancel` | what is sent runs once and in order; `stop` from any thread at any moment ends `run`; a timer is used between its start and its end |
| **EventLoopThread** | `loop_`, `thread_`, `mutex_`, `cond_` | `startLoop`, the thread, the destructor | `startLoop` returns a live loop; the deleted loop is not used any more; nothing that was sent is lost |
| **EventLoopThreadPool** | `loops_`, `threads_` | `start`, the threads, the destructor, `getLoop` | `start` waits for every thread; the destructor deletes loops that have ended, and returns |
| **TcpConnection** | `state_`, the `uv_tcp_t`, write contexts, the reference count | `send`, `shutdown`, the destructor, read, write, shutdown and close callbacks | the handle is closed once, outlives the connection and every write; writes keep their order; the assertions hold |
| **Idle timeout** (`TcpServer::whell_`, `Entry`) | a queue of buckets of entries per thread | fill, renew, tick, `~Entry` | a silent connection is reported once, after `timeout_` ticks, not earlier, not later |
| **TcpServer** | `connectionId_`, a `connectionMap_` per thread | accept, dispatch, `removeConnection`, `getAllConnection`, the destructor | each connection is in the map of its own loop; `getAllConnection` returns, with a regular snapshot; the destructor returns; every accepted client is served or closed, if its loop ran before it was stopped |
| **TcpClient** | `client_`, `curr_`, `connectionPtr_`, retry timers | `connect`, attempts, retries, the destructor | one attempt at a time, `1 + retryNum_` of them, not too early, an end |
| **Timeval** | none | `+`, `-`, comparisons, `millisecond` | a timer never fires much earlier than it should |
| **Buffer** (`Buffer.*`) | a list of blocks, two iterators, `readableBytes_` | `append`, `prepend`, `discard`, `next`/`extend`/`unwrite`, copy, move, swap | it behaves as one string of bytes |
| **BlockingQueue**, **BoundedBlockingQueue** | `queue_`, mutex, conditions | `put`, `take`, `poll` | elements once each in order, no lost wakeup, never overfull |
| **ThreadPool** | `running_`, `queue_`, `threads_`, mutex, conditions | `start`, `run`, `threadFunc`, `stop` | tasks once each in order, none behind `stop`, which leaves nothing; no lost wakeup |
| **BufferStream** | a `Buffer` | `Next` and `BackUp` for protobuf, in both directions | what protobuf writes is appended; what it reads is what was there |
| **Codec**, **Dispatcher** | a `Buffer` at each end, the table of callbacks | `encode`, `decode`, `onMessage` | `decode` waits just until a frame is whole, whatever pieces it arrives in, and the callback of its type gets the message that was encoded |
| ObjectPool, ThreadLocal, Singleton, Any, SockAddr, utility | – | – | not modelled, see section 5 |

### Interactions

- *Calls into a loop.* Everything that touches libuv goes through
  `EventLoop::runInLoopThread`: directly in the loop's own thread, through a
  `uv_async_t` from any other. Connections, the client, the server and the
  timers all depend on its order.
- *Shared ownership.* A connection lives as long as a `TcpConnectionPtr`: in the
  server's map, in the client, in a write context, or in user code. libuv's
  callbacks reach it through a `weak_ptr` that is kept in the handle.
- *Callbacks.* The server's loop hands a client over to a loop of the pool; the
  connection's close callback removes it from the map of that thread.
- *Questions and answers.* `getAllConnection` sends a callback to every loop and
  waits on a `BlockingQueue` for their answers.
- *Ticks.* `runEvery(1000, checkConnection)` drives the wheel; `runAfter` drives
  the retries of the client.
- *Frames.* `Codec` writes a message into a `Buffer`, which `send` hands to libuv
  block by block; the reading callback extends the receiver's `Buffer` with
  whatever has arrived, and `decode` takes the frame out of it.

### What is hard

Interleavings of user threads with a loop (`send`, `shutdown` and the last
reference against the callbacks); order of posted operations around `uv_close`;
flags read without a lock (`running_`, `run_`, `loop_`); notifications outside
a mutex; joins with a mutex locked; destruction while callbacks are on their
way; two loops that wait for each other; counters and buckets off by one;
block boundaries of the buffer. `PROJECT.json` lists each at its line under
`hazards`, with the properties that cover it.

## 2. The models

One action is one callback, one critical section, or the part of a function
between two points where another thread can be seen. Flags without a lock are
read and written in steps of their own; the outcomes of the data race are those
interleavings. libuv is modelled by what its callers see of it.

| Module | Stands for | Remarks |
|---|---|---|
| `TcpConnection` | one connection of a server (`HasCloseCallback`) or of a client | `tasks` is what `runInLoopThread` has queued, `frame` and `pc` say where the loop and the callers are; a caller that is inside `shutdown()` or drops a reference does so in several steps. Buffers are left out |
| `IdleWheel` implements `IdleTimer` | the wheel of one thread; a countdown per connection | refinement: the countdown is `K - silent` |
| `ThreadPool` | pool, callers of `run`, owner | a worker takes a task with the mutex (`Take`) and begins it without (`Begin`); spurious wakeups; several starts; `stop` keeps the mutex while it joins |
| `EventLoop` implements `Mailbox` | one loop, its thread, the threads that use it | `batch` is what libuv has moved out of its queue in this iteration; where it looks at the stop flag is left open; a timer's callback is `firing` from `TimerBegin` to `TimerEnd`, and the loop's thread may do in it what it may do in any callback |
| `EventLoopThread` extends `EventLoop` | the loop's thread, its owner and other threads that use the loop, over the whole loop | `startLoop` and the destructor in steps; loop callbacks happen in the new thread only |
| `EventLoopThreadPool` | `N` threads and the owner | each loop is reduced to `StopEnds`, a property the loop's own run checks |
| `BlockingQueues` implements `Mailbox` | both queues, chosen in `Init` by `bounded`, with threads that put, take and poll | a critical section is a step; the plain queue notifies in a step of its own, outside the mutex; a timeout may come at any time |
| `TcpServer` | main loop, pool, threads that ask, the owner who destroys it | the size of the pool is chosen in `Init`; a thread that is no loop of the pool just asks; `async` is each loop's queue in the order `EventLoop` keeps; a connection is a state and a place in a map; a loop's thread enters `run()` when it gets to it (`Enter`); the destructor stops and joins one loop after the other, with the two lines of `stop()` in two steps (`StopLoop`, `PostStop`) |
| `TcpClient`, with `Timeval` | attempts, timers, outcomes, the destructor | `uv_tcp_connect` may refuse, in which case no callback comes; a retry's timer has an amount of time left, in the microseconds of `Timeval` and the whole milliseconds of libuv |
| `BufferOps`, `Buffer`, `ByteString` | the operations on a buffer's value, `BufferOutputStream` included (`StreamWrite`); sequences of them on several buffers; the same on strings | a block is its capacity, its read position and its readable bytes. `ByteString` runs in step with the blocks, as `result` does beside the buffer in `test/testBuffer.cpp` |
| `Codec` | sender, wire, the receiver's buffer, `BufferInputStream`, `decode` and the dispatcher | a name and a body are short byte strings; a body is valid or not; the sender waits for nothing, and the wire delivers any prefix of what was sent; the receiver is `main` of `test/testCodec.cpp`, which goes no further once `decode` has an answer (`Undecided`) |
| `*Proofs` | – | theorems, section 4 |
| `MC*` | – | instances for TLC |

The definitions named `Faulty...` are wrong variants of a definition, each a
plausible slip in the code; with one of them put in its place the property that
`PROJECT.json` pairs it with must fail. No specification uses them.

History variables (marked so where they are declared) record what properties
talk about and influence no step.

## 3. The runs

| Run (cfg) | Shows | Bounds, and why they suffice |
|---|---|---|
| `connection_server` (`TcpConnection_server`) | the assertions of `readCallback`, one close, no write behind it, writes in each caller's order, `IInv`; a thread and the loop send, shut down and drop references | two callers with two sends each: every pair of operations of two threads meets in every order, and two sends are the least that can be swapped; for more threads there are the proofs |
| `connection_client` (`TcpConnection_client`) | a client's connection, with `shutdown()` kept to the loop's thread: nothing reaches a closed handle, CLOSE_WAIT can send; a FIN leaves, accepted writes end, an abandoned connection is closed | one sending thread beside the loop |
| `idle_wheel` (`IdleWheel`) | the wheel implements the countdown; a silent connection is reported, once and on time | three connections, three buckets: a bucket in front, one behind, one between |
| `thread_pool` (`ThreadPool`) | order, complete stop, nothing is taken once it has begun and nothing begins behind it (`TasksEndWithStop`); no lost wakeup | two workers, two producers with two tasks each, room for one, two starts |
| `loop_thread` (`EventLoopThread`) | order, `run` is entered once, timers that are cancelled as they may be are used between start and end, their own callbacks included, what is sent runs, a stop ends the loop; initCallback first, nothing is lost, the deleted loop is unused, the destructor returns | the owner calls twice, so that it can start a timer and cancel it, another thread and the loop itself once; a one-shot and a repeating timer |
| `loop_thread_pool` (`EventLoopThreadPool`) | `start` waits for all and returns; only joined loops are deleted | three threads in every order |
| `blocking_queues` (`BlockingQueues`) | order, capacity, wakeups, returns, of both queues | two putters with two puts each, two takers, two places: two wakeups for one place or element |
| `tcp_server` (`TcpServer`) | maps, queues, snapshots; unless two loops block each other for good, calls return; the destructor, at any time between two calls, returns; no accepted client is left behind by a loop that has entered `run()` | no pool, or two loops; two clients; the main loop and two threads ask once each, which are the loops of the pool if there is one |
| `tcp_client` (`TcpClient`) | attempts and retries: their number, that each waits for its delay, that they end | two `connect()`, three retries as by default; a millisecond has three microseconds (`Milli`) and a retry waits three of them (`RetryDelay`): with up to two microseconds between the two readings of the clock (`MaxGap`) and a loop that is up to four behind (`MaxLag`) every rounding occurs, and a retry that is a whole millisecond early can be told from one that is not |
| `codec` (`Codec`) | in whatever pieces frames arrive, `decode` is unable just until the first is whole and leaves the bytes alone, however often it is called (`CodecIInv`); then the first message goes to the callback of its type; where `decode` may fail (`DecodeIsRight`) | two messages, one behind the other, of two known types and an unknown one, with and without a body; blocks of two bytes, so that names and integers span blocks; pieces cut at every byte |
| `buffer` (`Buffer`) | each of two buffers is the string its operations make, those of `BufferOutputStream` among them (`SameAsString`); its blocks and iterators fit, `readableBytes_` counts what they hold, blocks do not pile up (`IInv`); copies, moves, swaps and assignments share nothing | blocks of two bytes and more, strings of up to three, four bytes in both buffers together: a string that spans three blocks, and every position within a block |

One run looks for a violation, of a property that a test of the repository takes
for granted: `thread_pool_stop` (`ThreadPool_stop`). `stop()` joins with `mutex_`
locked (`ThreadPool.cpp:60`), so that a worker which waits for a task never
returns from its wait; the test ends with just such a `stop()`.

### Where the code and the models go on after something went wrong

The models contain these behaviours too, and no property excludes them:

- The last reference to a client's connection is dropped in another thread; data
  that is read before the posted `uv_close` meets `assert(conn != NULL)`
  (`TcpConnection.cpp:45`). In `TcpConnection` with `HasCloseCallback = FALSE`
  and another thread that holds a reference, `ReadCallbackFindsConn` fails.
- After the peer's FIN `shutdown()` does nothing (`ShutdownCheck` needs
  `CONNECTED`), although the comment at `TcpConnection.cpp:55` lets the user send
  until `shutdown()`.
- A thread's `send` is queued, `shutdown()` in the loop's thread is not
  (`TcpConnection.cpp:125`): what was sent before may reach libuv behind the FIN
  and is refused. `FinWaitSendsFin` says that a FIN leaves, not what is before it.
- `cancel` frees the timer without asking (`EventLoop.cpp:100`-`102`). Called in the
  timer's own callback, when the timer has ended, or a second time, it leads to a use
  of freed memory; for the first of these it is `timerCallback` that reads the timer
  (`EventLoop.cpp:128`, `TimerEnd`). `broken` has the timers that were cancelled so,
  `misused` those that were used so.
- `start` of the pool does not wait for the threads to call `run()`: a thread that comes to
  `while (run_)` (`EventLoop.h:33`) after `stop()` has reset it (`EventLoop.cpp:38`) runs
  nothing that was sent to its loop (`Enter`). A client that was accepted for it is
  neither served nor closed when the server is destroyed at once;
  `PostedIsServed` and `EndIsClean` leave out just those loops.
- A worker that has taken a task may begin it when `stop` has begun
  (`ThreadPool.cpp:45`, `Begin`); `stop` then joins it.
- `running_` is set behind the creation of the threads (`ThreadPool.cpp:13`): a
  quick worker leaves at once (`Test` beside `StartEnd`). `QueuedIsTaken` and
  `RunReturns` therefore speak of a pool that has a worker left.
- A caller of `run` that waits for room when the pool is stopped is not notified,
  not even when the pool is started again (`ThreadPool.cpp:20`).
- `loop_` is set and notified without the mutex (`EventLoopThread.cpp:17`):
  `startLoop` may sleep for ever (`Notify` between `TestLoop` and `Wait`).
- `getAllConnection` destroys its local queue while a loop may still be in `put`
  (`TcpServer.cpp:203`; `Return` before the loop's `Notify`).
- The maps of the pool's threads, and the connections in them, outlive the
  server (`DestroyMembers`): `ThreadLocal` deletes only the calling thread's value.
- `decode` leaves the blocks it has read in the list and reads on into what is behind
  the frame; if a block holds more than is left, `bytes_` wraps (`BufferStream.h:62`). With
  bytes of another frame behind the first, `decode` may give an error, or meet the
  assertion of `Next` (`BufferStream.h:57`); a frame of an unknown type leaves its
  body (`Codec.h:40`). `DecodeIsRight` names these cases, and `CodecIInv` claims
  nothing of a buffer that `decode` has taken a frame from. `decode` also reads the
  length before it knows that there are four bytes (`Codec.h:32`, `NoLength`).
- A retry comes up to a millisecond early, and earlier by what the loop's clock is
  behind (`EventLoop.cpp:64`); `RetriesAreSpaced` allows for just that.
- `swap`, assignment and move exchange end iterators (`Buffer.cpp:87`): with a
  buffer without blocks the iterators are those of another list. With
  `EmptySwaps = TRUE` such a buffer is not `Usable` and `SameAsString` says no more of it.

### Restrictions that some runs make

- `NothingIsLate`, `CloseWaitCanSend` and the liveness of `TcpConnection` hold if
  `shutdown()` is called only in the loop's thread (`Closers = {loop}`). With
  other callers a posted `shutdown()` may come behind the close;
  `OnlyShutdownMayBeLate` says that nothing else does.
- `TimersUsedRight` is about timers that are cancelled as a caller of this interface
  has to (`MayCancel`): once, before the timer has ended; in the loop's thread behind
  the start and not in the timer's own callback; in another thread for a repeating
  timer only, since a one-shot timer may end at any time. The model's callers
  cancel whenever they like. The interface gives no way to find out (hazard at
  `EventLoop.cpp:100`).
- `PairedDestructorReturns`: the pool's destructor returns if loop *i* is that of
  thread *i*. In another order it may join a thread whose loop it has not
  stopped (hazard at `EventLoopThreadPool.cpp:35`).
- `buffer` takes no buffer without blocks in a move, a swap or an assignment
  (`EmptySwaps = FALSE`), for the reason above.
- Another thread that uses the loop of an `EventLoopThread` has finished before
  the owner destroys it.
- `TcpClient`: the user calls `connect()` when no attempt and no retry is pending,
  and destroys the client while its connection is open: nothing else takes the
  bare pointers to it out of the request and the timer (hazard at
  `TcpClient.cpp:49`). The two readings of the clock are at most `MaxGap` apart; a
  longer pause with a short delay meets the assertion of `operator-`.
- `TcpServer` is destroyed when it was started, nobody is in `getAllConnection`
  and nobody calls it any more: a call would ask a loop that is deleted, and the
  destructor of a server that was never started closes a null handle
  (`TcpServer.cpp:28`). Its loops are in the order of their threads, as in
  `PairedDestructorReturns`.
- `codec`: the receiver leaves its buffer alone when `decode` has given an answer, as the
  test does.

Deadlock checking is off where the system may stop: the loop has ended, the
connection is gone, the pool is stopped, the bounded number of calls is used up.

### Fairness

- *TcpConnection*: callbacks return (weak); what the loop has to run, and a write,
  a shutdown or a close that libuv has in hand is served again and again
  (strong, since a callback in between makes it wait): libuv serves all ready
  handles in each iteration. A peer that neither takes data nor resets is
  excluded; the operating system ends such a connection.
- *IdleWheel*: the repeating timer fires.
- *ThreadPool, queues*: a thread that can run does. Nobody is made to call `run`
  or `put`. Spurious wakeups may happen and are never relied upon. For
  `PutReturns` the takers go on taking.
- *EventLoopThread, EventLoopThreadPool*: the loop's thread calls `run()` and keeps
  going, callbacks, `initCallback_` and those of timers return; a thread inside `stop()` gets to its end. Nobody has to call the loop.
- *TcpServer*: each loop's thread enters `run()` and runs its callbacks, a caller goes on asking and taking, a
  destructor that was called goes on. Nobody has to accept, close, ask or destroy.
- *TcpClient*: an attempt ends in one way or another, time passes and timers fire.
- *Codec* and *Buffer* have no liveness property: one thread calls one function
  after the other.

## 4. The proofs

TLAPS checks these for every value of the constants (any number of threads,
sends, connections, buckets, putters, takers, any capacity, blocks of any size and
strings of any length):

| Module | Theorems |
|---|---|
| `TcpConnectionProofs` | `TypeCorrect`, `InvariantHolds`, `HandleOutlives`, `HandleClosedOnce`, `NoLateWrite`, `ServerReadFindsConn`, `EofFindsOpenState`, `SendsInOrder`, `NothingComesLate`, `CloseWaitSends` |
| `IdleWheelProofs` | `InvariantHolds`, `AtMostOnce`, `NobodyIsOverlooked`, `NothingFiresEarly`, `WheelImplementsTimer` |
| `ThreadPoolProofs` | `InvariantHolds`, `QueueIsBounded`, `TasksInOrder`, `StopLeavesNothing`, `NoneBeginsBehindStop` |
| `EventLoopProofs` (of `EventLoop`, `EventLoopThread` and `EventLoopThreadPool`) | `InvariantHolds`, `RunEntersOnce`, `TimersAreUsedRight`, `AsyncsAreMailbox`, `ThreadInvariantHolds`, `NothingSentIsLost`, `PoolInvariantHolds` |
| `BlockingQueuesProofs` | `InvariantHolds`, `CapacityIsKept`, `NoWakeupIsLost`, `QueueIsMailbox` |
| `TcpClientProofs` | `InvariantHolds`, `AttemptsAreCounted`, `RetriesComeLate` |
| `TcpServerProofs` | `InvariantHolds`, `SnapshotsAreRegular` |
| `BufferProofs` (of `Buffer` and `Codec`) | `BufferInvariantHolds`, `BufferIsAString`, `CodecInvariantHolds`, `DecodeAnswersRight` |

They assume what the modules' named `ASSUME`s say of the constants, which TLC
evaluates on every run, and a few a hypothesis of their own, named below. Each follows one pattern: `IInv` of the module is
inductive (one lemma or step per action), and the property follows from it.
What `IInv` adds to the property, and why:

- *TcpConnection*: whoever is in the middle of a call keeps a reference
  (`BusyCallersHold`), a queued or pending write has its context
  (`QueuedWritesHaveContext`), and writes are numbered along the loop's queue
  and libuv's (`WritesNumbered`). Without the first, a step of `send` could
  begin on a destroyed connection; without the last, order in one queue says
  nothing of the order in the next. `OpenUntilEof` ties `state_` to the FINs.
  `NothingComesLate` and `CloseWaitSends` have `Closers \subseteq {LoopThread}` as
  a hypothesis and need `LoopCloses`: then no `uv_shutdown` is ever queued, and a
  connection with a close on its way is already CLOSED.
- *IdleWheel*: `EntryInPlace`. An entry sits in the bucket of its last message
  and in none behind it; so a tick drops its last reference exactly when it has
  been silent for `K` ticks. The same fact makes each step of the wheel a step
  of the countdown.
- *ThreadPool*: `Phases` ties `running_`, the owner and the workers together;
  `Numbered` says that the tasks taken and queued are each producer's calls in
  order.
- *EventLoop*: `StopAnnounced`, `run_` is false before anything of a stop can be
  seen in the loop, the order of the two lines of `stop()`. For the timers
  `TimersInOrder`: over the batch and the queue together a timer has at most one
  start and one cancel on its way, and the start comes first. Without it a
  cancel could free a timer whose start is still to run. `FiringInUse`: the timer
  whose callback runs is there when the callback returns. Both speak of timers outside
  `broken`, and so `misused` stays within `broken`.
- *EventLoopThread*: `ThreadIInv` puts the phases of the owner around the loop's
  invariant: only the destructor may be in the middle of `stop()` once it has begun,
  and nobody when the loop is deleted. `SentInv` follows a call from its thread to
  `ran`: it is sent, or its thread is between the two lines of `stop()`; the stop
  flag is up only if a stop has run or the loop's thread has made a call. If only the
  destructor stops, its stop is the last thing sent, and what it ends is empty.
- *Queues*: that nobody sleeps beside an element needs, for the plain queue,
  the putter that is about to notify, since `put` notifies outside the mutex.
  For the bounded one, elements, sleepers and places are related by their numbers.
- *TcpClient*: `AttemptsFollow` (the attempts of one `connect()` are numbered on from
  its first, `curr_` of them) and `TimerIsLate` (what is left of a timer and what
  has passed together are the delay, but for the rounding and the lag).
- *TcpServer*: `PostedIsQueued`, an accepted client is in the queue of its loop, and
  of no other, exactly once until it is set up; with `IdsInOrder` no id is given
  out twice. `EndIsClean`: a stop is the last message in its loop's queue, since
  nobody sends once the destructor has begun; hence the queue of a loop that has
  ended is empty if its thread had entered `run()`, and only ended loops are deleted.
- *Snapshots*: an answer is right when it is given, and stays so, since nothing that
  is gone comes back; what must be excluded is a client that was on its way when the
  call began and is set up behind the answer. `AnswersFit` says that such a client
  stands before the question in its loop's queue. `AskedOnce` keeps questions and
  answers apart: as many answers as loops are one of each.
- *EventLoopThreadPool*: `LoopsAreThreads`, `loops_` is a list of the threads that
  have added theirs, in whatever order; `DeletedAreJoined` follows the destructor,
  which gets past a loop only if it is that of the thread it joins.
- *Buffer*: the property speaks of the bytes, the invariant of the layout that keeps
  them in place: only the first block has been read from, none before
  `lastWithData_` is empty but the first, at most one is behind it
  (`DataInOrder`), and a block that is empty is at its start or its end. Without
  the last `append` would leave a gap, without the others `discard` would erase
  too few blocks. What an operation does to the layout is a lemma on its value
  (`AppendKeeps`, `DiscardKeeps`, ...); what it does to the string is one on the
  concatenation of the blocks. A buffer that was given away without a block has
  none and is left alone, so that the theorems need no restriction of `EmptySwaps`.

- *Codec*: until `decode` has an answer the receiver's buffer is `WellFormed`, the invariant
  of `Buffer` for a usable value, so that the lemmas about its operations apply, and
  the buffer and the wire together are the frames that were sent (`NothingIsLost`). So the
  buffer begins with the first frame or a part of it, whatever blocks it lies in.
  Integers are read as they were written because the lengths fit (`CodecAssumption`:
  protobuf makes no message of 2 GB). That the stream gives the body depends on
  `discard`: it erases the blocks it has read to their end, or the first block would
  not be that of `firstWithData_` (`DiscardLeavesFront`, `NextHasData`). With
  bytes behind the frame the stream takes whole blocks, and the result is any that
  `Parsed` gives.

Where the code recurs or loops over a list, the module uses a recursive function or a
quantifier over the blocks, and `BufferProofs` does the induction in first-order
steps: a set of numbers that is not empty has a least (`LeastElement`, from the
well-foundedness of finite sets), so that a set with 0 and all successors is `Nat`;
and a function that is given by its value at 0 and a step exists (`Recursion`).

The mailbox refinements are proved from the initial state and one lemma per
action that sends or handles; all others stutter.

Only model-checked: the liveness properties (TLAPS does not reason about fairness
here). Every invariant and every safety property of a run is a theorem.

## 5. What is not modelled

- Memory that only leaks, formatting, logging, addresses and errors that are
  only reported.
- libuv's own handle queue, which `uv_async_init` (`EventLoop.cpp:56`),
  `uv_tcp_init` (`TcpClient.cpp:12`) and the write to `client->loop`
  (`TcpServer.cpp:125`) change from a thread that does not own it. The first is
  listed as a hazard without a property; the others are races of the same kind.
- What `EventLoop`'s destructor does to libuv: it frees `loop_` and then stops the
  signal handle that lived in it. `EventLoopThread` models when the loop is
  deleted, and who may still use it.
- The memory of `server_`, freed right after `uv_close` (`TcpServer.cpp:29`), and the
  failures of `TcpServer::start`, after which the server has no clients.
- `BackUp` of the input stream (protobuf calls it when it rejects a message in the
  middle of a block) and `Skip`, which does nothing.
- `ObjectPool`: no other code uses it, and `allocate` drops the object it takes off
  the list (`ObjectPool.h:28`), so that nothing pooled is ever handed out again.
- `ThreadLocal` and `Singleton`: the models have one value per thread where the code
  uses them. `Any`, `SockAddr`, `utility`: types, conversions and macros, with no
  state that several steps or threads could disagree about.
- What tasks and callbacks of the user do, except where they call the library.

## 6. Plan

The questions below belong to the runs that exist: each extends the instance of
the component it belongs to, with its constants and properties.

Done: every component of section 1 but those of section 5, with the destructors
of the server, the client, the loop's thread and the pool, and the proofs of
section 4.

Next, in this order:

1. A composition of `TcpServer` with `IdleWheel` in one loop: a connection that is
   removed while its entry is still in the wheel.
