# Verification of SimpleWebServer

TLA+ models of SimpleWebServer, a small Linux web server in C++20 (`src/`): a
reactor with its timers and callback lists, a coroutine layer on top of it, a
classic connection layer, an HTTP server and an asynchronous logger. TLC checks
the models on small instances; TLAPS proves the theorems about the reactor, the
coroutine scheduler and its I/O, the timing wheel, the callback-style connections,
the buffer, the client, the HTTP parser and the logger for every value of the
constants.

`PROJECT.json` is the index: components, runs, the lines each definition
translates (`map`), one deliberately wrong variant per property (`mutants`), the
disagreements met between code and documentation (`findings`) and what is hard
to test here (`hazards`). Definitions whose comment begins with "(mistake)" are
these wrong variants; no specification uses them.

## 1. The system

| Part (under `src/src`) | State | Operations | Hard |
|---|---|---|---|
| `reactor/EventLoop`, `Activater` | `is_loop`, `mu`, `cb_list`, the eventfd; in `run()`: the batch of ready channels and `now_cb_list` | `run`, `stop`, `add_callback`, `add_callback_after`, and under the mutex `add_timer`, `remove_timer`, `update_channel`, `remove_channel` | any thread calls while the loop blocks, dispatches or runs callbacks; `stop` takes no mutex; a callback runs under the mutex |
| `reactor/Poller`, `Channel` | epoll set, `fd_set`, `event_list`, per channel the enabled and the triggered events | `update_channel`, `remove_channel`, `poll` | channels created and destroyed by the callbacks of the batch that is being handled |
| `reactor/EventLoopPool` | loops and threads | `start`, `stop`, `getLoop`, destructor | stop before a loop runs |
| `timer/TimerScheduler`, `reactor/TimerSchedulerAdapter` | `trigger_before_ms`, `slot_ptr`, `wheel` | `add_timer`, `remove_timer`, `trigger_timer` | positions modulo the wheel against a wheel that turns late; callbacks that add and remove timers |
| `base/Buffer` | two pointers into a vector used up to its capacity | `push_from`, `push`, `pop_to`, `pop` | growth copies `size()` bytes, data reaches to `capacity()` |
| `co/Coroutine`, `base.hpp` `ResourceQueue` | `ready_queue`, `is_schedule`, `co_map`, `now_co`; the pool's queue and count | `add_callback`, `schedule_co`, `handle_co`, `get_channel` | no mutex, called by two threads; a coroutine goes back to the pool while on its own stack |
| `co/co_fun` | per-thread map from fd to one-shot channel | `co_read`, `co_write`, `co_accept`, `co_sleep`, `co_close` | sticky enable bits, retry after wake-up |
| `tcp/TCPServer2` | `i_thread`, the schedulers | `run`, `stop`, `accept_cb` | hand-over to the scheduler of another thread; limit on connections |
| `tcp/TCPConnection`, `TCPServer`, `TCPAcceptor` | connection state, two buffers, `conn_map` by fd | `send_data`, `half_close`, `full_close`, the two handlers, `create_conn`, `remove_conn` | close inside callbacks, removal through the callback list, reused fds |
| `tcp/TCPClient`, `TCPConnector` | retry delay, one connection | `connect_peer`, `create_conn` | retries; two channels for one fd |
| `http/HTTPMessageParser`, `HTTPServer2` | parser state, positions; one `Buffer` per request | `parser_message`, `write_message`, the request loop | requests split over reads, partial writes |
| `logger/Logger` | `buf_list`, `empty_buf_list`, `mu`, `is_thread_run`, the file | `append_log`/`write_buf`, `flush_buf`, the flusher thread, destructor | trims under load, logs that straddle blocks, FATAL flush without the mutex, shutdown |

How they interact. A thread hands a callback to a loop by `add_callback_after`;
the loop runs it after the handlers of the next batch of ready fds. Timers are a
channel (the timerfd) of the loop. A `CorouteScheduler` hands its `handle_co` to
the loop in the same way and resumes its ready coroutines there; a coroutine
parks itself on a one-shot channel or a timer whose callback is `schedule_co`.
`TCPServer2` runs `accept_cb` as a coroutine of the last loop and gives each
connection, round robin, to the schedulers of the other loops, from its own
thread. `TCPConnection` (the older, callback-style layer) lives in `conn_map` of
`TCPServer` and is destroyed by a callback handed to the loop. Everything logs.

What makes each part correct: the loop runs each callback once, in order, does
not sleep on work and ends when told to; the wheel fires a timer in its slot and
in no other revolution; the buffer loses and reorders no byte and offers room to
every read; a scheduler never has a ready coroutine that nobody will resume, no
coroutine is resumed or reused while it must not be, and one that waits for an fd
is woken by that fd; a client has one connection or one attempt; no handler
of a connection runs after its destruction and its output never stalls; a message is
read as it was sent, whatever pieces it came in; the log file holds every
log that was not trimmed, in order.

## 2. The modules

* `TaskExecutor`: the abstract specification of an event loop, a first-in
  first-out executor.
* `EventLoop` (`MCEventLoop`, proofs in `EventLoopProofs`): `run()` as the
  program of one thread, with a label `pc` for its place; every call of every
  thread cut at its critical section and at the write of the eventfd (`op`).
  `cbList`, `nowCbList`, `isLoop`, `mu` are the variables of the code, `efd` says
  whether the eventfd's counter is non-zero. `accepted` and `ran` are histories.
  Of the poller the module has `PollReturn` (any batch that contains the
  Activater's channel when the eventfd is readable) and of the timers and
  channels the sections that hold the mutex (`LockedCall`), including the
  callback of an already due timer that takes the mutex again (`DueTimerPost`).
* `CoScheduler` (`MCCoScheduler`, proofs in `CoIoProofs`): schedulers, pool and
  coroutines. `schedule_co` is three steps (read `is_schedule`, hand over
  `handle_co`, set it), `handle_co` clears it in a step after it saw the queue
  empty. `handed[s]` counts the `handle_co` callbacks in the loop's list; that the
  loop runs them is what `EventLoop` establishes. A task is the callback given to
  `add_callback`, a number; `body` says which task a Coroutine object was last
  given. Why a coroutine parks and what wakes it is left open here.
* `CoIo` (`MCCoIo`, proofs in `CoIoProofs`) extends `CoScheduler` and says why: its
  actions are those of `CoScheduler` with the state of `co_fun` and epoll added.
  `chan` is `fd_map` with the enable bits and the callback of each channel, `armed`
  what epoll still watches (a one-shot report clears it), `kready` what the kernel
  has ready, `fdOf` the fd a task works with, `want` what a parked coroutine waits
  for. `_co_io_fun` is `IoNow` (the first call succeeds), `IoPark` (it returns -1,
  because it fails or because it would wait on a non-blocking fd: the code parks on
  either) and `IoRetry` (the second call after the wake-up, whose result nobody
  looks at). `Accept` is the acceptor coroutine of `TCPServer2`, which hands each
  connection over as a task. Sockets that accept returns are blocking, so there a
  call that has nothing to do waits itself (`IoWait`), and with it the loop; a call
  on a socket that was reset fails (`Fails`) and parks. What a peer does is
  `PeerReady` and `PeerGone`: a pipe is left with a hang-up and nothing else, a
  socket with an error that the next call takes, readable and writable. The fd
  numbers come back: after `co_close` the next accept or pipe may get the same one.
  It is bound to one scheduler and to tasks with one fd of their own, used in one
  direction (`Dir`). A pipe has only one; of a connection that `HTTPServer2` serves,
  only reads or only writes come to be parked on, for a failed read ends it.
* `TimerWheel` (`MCTimerWheel`, proofs in `TimerWheelProofs`): the wheel, the clock
  and `trigger_timer` cut at each slot and each callback, so that timers are added
  and removed between and within callbacks. Each `status` is what became of a timer.
  `remove_timer` may be called of any timer that was given a list node, one that
  has fired included, and tests `trigger_before_ms` alone: it erases the node if it
  is still in a list (`Unlink`); the erase of a freed node (`UnlinkFreed`) is noted
  in `dangling`, and what the program does after it is not followed (`Undefined`).
* `TimerQueue`: the abstract specification of the wheel, a queue of deadlines
  without slots: a timer expires when its time has come, in the order of the slots
  and, within one slot, of `add_timer`.
* `Buffer` (`MCBuffer`, proofs in `BufferProofs`): pointers, size, capacity and the
  memory, the k-th byte pushed being the number k. `uses` restricts the operations
  to those one user of a Buffer calls.
* `Logger` (`MCLogger`, proofs in `LoggerProofs`): writers, flusher and destructor;
  a block is the sequence of the pieces copied into it and `writen`, the count the
  code keeps. `write_buf` is `LockBuf` (the log has its number from then on) and one
  `CopyRound` for each round of its loop, `job` what remains to copy; `flush_buf` is
  `Trim`, `WriteFront` and `MoveFront`, so that a FATAL log's flush, which takes no
  mutex, meets a writer that is copying and the flusher at every one of them.
* `TcpConnection` (`MCTcpConnection`): the callback-style server. A connection is
  its fd; `state`, the number of buffered output bytes, whether WRITE is enabled,
  which directions were shut down. One iteration of the loop is the batch of
  events, handled channel by channel and READ before WRITE as `handle_event` does,
  and then the removals of `cb_list`. A user callback is a place (`pc = "user"`)
  in which the user makes calls, on any connection, one step each; `ret` is where
  the handler goes on (the tail of `handle_write` after `write_lower`). `listSize`
  is the poller's `event_list.size()`, which every registration sets to the number
  of fds, and `nBatch` the events that `poll()` is reading from it meanwhile.
  Proofs in `TcpConnectionProofs`.
* `TcpClient` (`MCTcpClient`, proofs in `TcpClientProofs`): the client's thread,
  how `connect_peer` is due (`due`), the delay, the connection, and the socket as
  the kernel sees it (`sock`): a connect under way fails when it is repeated, a
  refusal is reported by the next connect. `holder` says who has the fd number,
  which both the connector's Channel and the connection's close.
* `HttpParser` (`MCHttpParser`, proofs in `HttpParserProofs`): the parser's members
  and those of its State object are one record `p`, and `match` of each state is an
  operator on it. A call of `parser_message` is `Receive`, which brings the piece
  (`upto`) and sets `begin_ptr`, and one `Parse` for each turn of its loop, that is
  for each character. The reference it is compared with is not another parser: a
  message is a text together with the positions of its parts, and `IsMessage` says,
  part by part, which characters may stand where, as the HTTP standard does but for
  the omissions its comment names (bodies without a length, tabs, lengths of 2^31
  and more). A word whose letters are only compared counts as one character.
  `Plain` singles out the messages that the parser is made for: the two methods and
  the codes it knows, a `=` in each pair of the query and no other separator there,
  no header without a value, the length under the name `Content-Length`, no name
  twice. The others are among the messages as well, the end of the program
  included (phase `aborted`), and the findings say what becomes of them; what is
  claimed is claimed for the plain ones.
* `HttpServer` (`MCHttpServer`) extends `HttpParser`: the coroutine of one
  connection of `HTTPServer2`. `got` characters have been read and lie in the
  buffer; each read calls the parser on the first `n` of them, as the code does
  (`ParserMessage`, here a fold of `Match`, for the caller only sees the result).
  `answer` holds the pieces that the writer gives to its callback, each pushed
  behind what the buffer still holds and written as far as the connection takes it.

## 3. The runs

| Run | Instance | Shows |
|---|---|---|
| `event_loop` | two clients, two callbacks, due timers that post | all invariants of the loop, refinement of `TaskExecutor`, `CallbackRuns`, `LoopEnds` |
| `co_io` | one scheduler, three coroutines and tasks, the listening socket, a pipe that is written and a socket that is read, peers that hang up and reset | the drain of the queue and the life of a coroutine; who waits is woken, by its own event, and finds what it waited for or that its peer is gone |
| `co_across` | two schedulers, one adding to the other | `TaskBegins` fails: the unprotected `is_schedule` |
| `timer_wheel` | 3 slots of 2 ms, three timers, delays 0, 5 and 7 (due, just under the limit, above it), lag up to 4 | placement, firing, no erase of a freed node (`far` excepted), refinement of `TimerQueue`, liveness |
| `buffer` | initial capacity 4, 12 bytes | bounds, room, no loss in an input buffer |
| `buffer_output` | push and pop_to only | `Intact` fails at the second growth |
| `logger` | two writers, logs of 2 and 3 characters, blocks of 4, one block allowed, four logs | order, no loss, exit, liveness |
| `tcp_connection` | two fds, two connections at a time, three accepted, messages of 0 to 2 bytes against a limit of 4, three user calls | no dangling handler, no batch cut short, one removal, output and half close make progress |
| `tcp_double_close` | one connection, one call | `NeverAborts` fails: `full_close` twice in one batch |
| `http_parser` | 184 plain requests, 23 plain responses and 26 messages that are not plain, alone or with the next message behind them, cut into pieces in every way, bodies of 0, 1, 2 and 10 characters | the plain ones are complete exactly at the end and read as sent |
| `tcp_client` | the delays of the code in units of 500 ms (1, limit 60: six retries) | one attempt or one connection, its fd, bounded delay, the attempts end |
| `http_server` | one request, cut at every place | `Accepted` fails: the second part is parsed from the start of the buffer |

Bounds, and why they are enough. Two clients and the loop's own thread give every
pair of callers of the mutex and the eventfd; a second callback is the first that
can be reordered. Three coroutines on one scheduler let one run, one wait in the
queue and one be taken from the pool again; in `co_io` one of them is the acceptor,
and with one pipe and one socket number every number is used again after a close.
Three slots of two milliseconds let the wheel go round completely by the time the
clock stops at 7, with timestamps inside and at the edge of a slot, and a lag of
more than one slot makes one trigger turn several slots. With an initial capacity of
4, twelve bytes cause three growths and every branch of `push`. Logs of 2 and 3 in
blocks of 4 straddle; with one block allowed the trim is met in ordinary operation.
Three accepted connections on two fds fill the table once and reuse an fd, the
shortest history in which a stale removal or event could meet the wrong connection;
three user calls let a callback send, send again from `write_lower` and close. The
messages of `http_parser` have none, one and two query pairs and header lines, so
each turn of the parser follows each that can come before it; separators stand in
the body and in values, where they must not end anything. `ParserAssumption`, which
TLC evaluates, says that all of them satisfy `IsMessage`, and `OddOnes` which of them
are plain; each of the others departs from that in one respect. The bounds that are not
parameters of the code are `MaxTasks` (which also bounds the connections that wait
to be accepted, see `Room`), `MaxNow`, `MaxBytes`, `MaxLogs`, `MaxCalls`,
`MaxAccepts` and the finite set `Calls`; each is a guard of the actions that would
exceed it. `co_io` stays below `max_conn_num`.

Deadlock is checked in every run but two: `event_loop`, where a callback of a
due timer really waits for the mutex its thread holds (`DueTimerPost`), and
`co_across`, whose two loops may both fall silent. `Finished`, `Idle` and `Ended`
are the states in which a program may rest.

Fairness. The threads are scheduled by the operating system, so a step of a
thread that stays possible is taken. `EventLoop` asks for strong fairness of the
loop's thread: a callback makes finitely many calls, and the other threads do not
keep the mutex from it for ever (`std::mutex` promises no order, but each critical
section is short). `epoll_wait` is only asked to return when the eventfd is
readable; the code's timeout of three seconds is *not* assumed, so the liveness
shown rests on the wake-ups alone. `CoScheduler` assumes that a resumed coroutine
parks or returns and that the loop runs what it was handed (the result of
`EventLoop`); a parked coroutine need never be woken. `CoIo` asks besides that a
timer fires and a ready, watched fd is reported if it can be again and again (strong
fairness, for `handle_co` may run in between), that a resumed coroutine makes its
second call, that a run of a coroutine comes to an end (strong fairness of
`Yields`), that the acceptor accepts, and that the peer of a blocking socket sends
in the end, without which one silent client holds up the whole loop. `Resumed` has
one more premise: `handle_co` returns to the loop again and again, which coroutines
that keep each other ready can prevent. In `TimerWheel` the timerfd
is armed again after each trigger, and time passes. In `Logger` the flusher's wait
ends (it has a timeout) and it gets the mutex, and a writer that holds it goes on
with its copy; the destructor need not run. In
`TcpConnection` the loop's thread runs and user callbacks return, and the peer goes
on reading: a channel with WRITE enabled is reported again and again, and in the end
some bytes can be written (strong fairness, for the socket may fill up in between).
In `TcpClient` the client's thread runs and a due retry is handled, though the loop
may turn any number of times before (strong fairness of `ConnectPeer`); nothing is
asked of the server or the kernel, for an attempt that goes on failing ends by the
limit of the delay.

## 4. What is proved

`EventLoopProofs` holds for every finite or infinite set of clients and callbacks,
from the one assumption `ThreadsAssumption` (the loop's thread is not a client and
`Nobody` is no thread):

* `TypesKept`: `Typed`, the types of the variables.
* `MutexDiscipline`: `mu = t` exactly when `t` is between lock and unlock. With the
  types this is `TypeOK` (`TypeCorrect`).
* `Wakeup`: `NoLostWakeup`, whose two parts are the callbacks and the stop. It is
  inductive given `Typed`. The argument is the order of the steps: the push comes
  before the write of the eventfd, the read of the eventfd before the swap, and the
  test of `is_loop` before the wait; a push that finds the loop past `epoll_wait`
  is served by the swap of the same iteration.
* `Ordered`: `InOrder`. It is not inductive by itself, for `Swap` overwrites
  `now_cb_list`; the strengthening `ExecOnly` says that this list is empty
  whenever the loop is not running callbacks. Three lemmas about concatenation
  (`AppendToConcat`, `MoveHead`, `HeadOfConcat`) do the rest.
* `Refinement`: `RefinesExecutor`, step by step, from `Typed` and `ExecOnly`:
  `Run` is `Start`, the failing test of `is_loop` is `Finish`, a push is `Accept`,
  `BeginCb` is `RunFirst`, everything else stutters (the swap included, for the
  abstract queue is the concatenation of the two lists).

`TcpConnectionProofs` holds for every finite set of fds, every set of message
lengths and every limit (`TcpAssumption`): `TypeCorrect`, `HandlersSafe`
(`NoDangling`), `RemovedExactlyOnce` (`RemovedOnce`) and `OutputWatched`
(`OutputArmed`). The inductive invariant adds to them what ties the places of the
loop together. `MapInv`: a removed connection has nothing left; between `poll` and
the end of the batch nothing is removed, so batch and current channel stay inside
`conn_map`, and no batch is left when removals run. `AcceptInv`: the acceptor's
event is only there while a connection may be accepted, which keeps the count of
accepts in its bound. `ListInv`: the batch fits into `event_list` *and* into the
number of registered fds, which cannot fall before the batch is handled, so the
resize of a registration inside a handler does not cut it. `NoDangling` alone is
not inductive because of that resize and because `RemoveConn` needs to know that
the batch is empty.

`BufferProofs` holds for every initial capacity and any number of bytes
(`BufferAssumption`): `TypeCorrect`, `WithinMemory` (`InBounds`, with
`ReadHasRoom` as a part) and `InputKept` (`InputIntact`). The strengthening is `SizeIsCap`:
without `push` the size of the vector is its capacity, so growth copies every byte
there is. That is what `push` breaks, by writing beyond `size()` (`buffer_output`).
Lemma `Growth` says what `vector::resize` leaves, `Memory` what a move and a write
do.

`TcpClientProofs` holds for every first delay and every limit not below it
(`ClientAssumption`): `TypeCorrect`, whose point is that the delay stays below
twice the limit, and `ConnectsOnce` (`OneConnection`). `OneConnection` alone does
not survive the destructor; `Ownership` says that the fd is the client's until the
connection is destroyed, and that no connection is left afterwards.

`CoIoProofs` begins with the scheduler by itself. These theorems hold for one
scheduler (each has the hypothesis
`Scheds = {s}`), any set of coroutines and any number of tasks, from
`CoAssumption`. A second scheduler that posts to the first can leave its queue
stuck, as `co_across` shows, so the hypothesis is needed. The invariant `CoInv` has five
parts. `Flags`: one thread at a time is inside a call, and `is_schedule` is set
exactly while a `handle_co` is handed over or running, but for the step between
the two statements of `schedule_co`; it gives `QueueDrained` (`NoStuckQueue`). `Places`:
a coroutine is in the pool, about to be pushed, queued once, parked or running, and
in one of these only; it gives most of `ResumedOwned` (`ResumesOwned`), whose
last part, that callbacks begin in order, needs `Tasks`: those not yet begun stand
in the queue in increasing order, so that the head is one that began or the next.
`Pool` bounds the pool's count by counting the coroutines in use, and with `Types`
gives `TypeCorrect`. The lemmas `TailElems` and `AppendElems` say what the two ends of a
queue without repetition do to the set of its elements.

The second part of `CoIoProofs` adds the fds, for any pipes, sockets and directions
(`IoAssumption`). `IoImplements`: every behaviour of `IoSpec` is one of `Spec`, so
the scheduler's theorems hold with the fds as well (`IoScheduling`). A report of
epoll is a `Wake` only if the coroutine of the callback is parked, so the refinement
needs the invariant `IoInv`: an open fd has one owner (`Owns`), an enabled channel
calls the owner of its fd and an armed one a coroutine that waits for it (`Chans`),
a coroutine waits for its own fd (`Wants`), and between the report and the second
system call nobody else takes what was waited for (`Finds`). A call may park on any
failure, so a reset matters too: `Resets` says that who is parked on a socket has
been told its error and that the socket stays ready, for which `Sound` says what may
be ready together; only a write whose peer is gone fails twice. From it `IoTypeCorrect`
(`IoTypeOK`), `ParkedIsArmed` (`IoArmed`) and `RetrySucceeds` (`NotSpurious`).
`Moves` and `Acts` collect what two families of steps have in common: those of the
scheduler alone, and those of the running coroutine on its fd.

`TimerWheelProofs` holds for every slot length, number of slots, set of timers and
delays and every lag of at least one slot (`WheelAssumption`): `TypeCorrect`,
`Placed` (`Placement`) and `InItsSlot` (`FiresInItsSlot`). What must be shown is that
`slot_ptr + slot_n` modulo the wheel names the same list whenever it is computed:
`Home`, the slot of a timer, is a function of `trigger_before_ms` and `slot_ptr`, and
`PosStays` says that it does not change when both move on by one slot. The proof of
this is arithmetic (`DivMod`, `DivModUnique`), for which `Clocks` keeps the timestamps
on whole slots. `Entries` and `Listed` are `Placement` seen from the list and from
the timer: an entry is pending and at home, or one that the round under way has
fired, and a pending timer is in its list. `OnceEach` keeps an erase from
leaving a second copy. `Ahead` bounds how far ahead of the wheel a pending timer is
by one turn, so that its slot is reached at its own time and not a turn before; this
is what fails for the timers of `far`. `ErasesLiveNodes` (`ErasesLive`) rests on
`Reached`, that the timestamp of a timer that has fired is behind the wheel, so that
the test of `remove_timer` tells its freed node from the others; `FreedIsFar` is the
lemma. `Due` and `Round` relate what was fired to
the clock and to the wheel.

`Refinement`, in the same module, is `ImplementsQueue`: the wheel implements
`TimerQueue`, which knows no slots. The queue's instant is the wheel's
`trigger_before_ms` (`now <- before`), a timer's deadline its timestamp, and the
order among timers of one deadline their positions in the list of that slot
(`Order`): it is a history in the abstract specification and nothing but the lists
in the wheel. A timer that is `far` is `loose` there, that is, nothing is promised
of it. Turning the wheel by a slot is `Reach`, for which `Due` says that no pending
timer is left behind, and running a callback is `Expire`, which asks that no timer
stands before this one. The rest is what one step does to `Order`: a `push_back`
adds the pairs of the new timer with those of its slot, an erase or a callback
removes the pairs of one timer and leaves all others.

`LoggerProofs` holds for every number of writers, every block size and number of
blocks and all lengths of logs that fit into a block (`LoggerAssumption`; the code
has 2 KB and 4 MB): `TypeCorrect`, `InOrder` (`FileInOrder`), `OnlyTrimLoses`
(`NothingLost`) and `FlushedOut` (`FlushedAtExit`). `TypeCorrect`, which includes that
no block is filled beyond its size, holds after a FATAL log too; the other three
speak of executions without one, for its flush without the mutex does break them.
The strengthening: `Roles` and `Mutex` say who may be where and who holds the mutex,
so that (lemma `FlushAlone`) one thread flushes at a time and nobody copies
meanwhile. `Lists`: a block of `empty_buf_list` is empty, and so is the first block
between its write and its move. `Copying` is the reason why a log that straddles
blocks is not cut off although its remainder is copied from the beginning: what did
not fit has filled the last block, so the next round takes an empty one, in which
the log fits whole. `NothingLost` needs it, for it asks for a whole copy.

`HttpParserProofs` holds for every set of messages, of any length and with any
number of query pairs and header lines, for every text that may follow and every way
of cutting the whole into pieces (`ParserAssumption`). `TypeCorrect` speaks of all of
them, `AcceptsEveryMessage` (`CompletedExactly`) and `UnderstandsEveryMessage`
(`Understood`) of the plain ones, whatever other messages are sent. What a loop over
the message computes would need an induction over data, which the provers cannot do. So the model does not compute it: one step is
one turn of the loop of `parser_message`, the induction is that over the steps of a
behaviour, and `IsMessage` says what a message is by positions, without recursion.
The inductive invariant `IInv` says, for each place a character can have in a
plain message, in which state object the parser is there, which positions it has noted
and what its maps hold: `InMethod`, `InPath`, `InKey`, `InValue`, `InVersion`,
`InCode`, `InDetail`, `AtKey`, `AtSplit`, `AtValue`, `AtEnd` of the i-th line,
`InEmptyLine` and `InBody`. There is one lemma for the turns of each
(`MethodTurn`, ..., `BodyTurn`), and `Turn` puts them together;
`TurnWorks` is what a turn does whatever the message. `PairText` and
`LineText` say which character comes at the end of a part; `HoldsPut` that a pair
with a new key is added to those before; `PairRead` and `LineRead` that the
positions noted are those of the message. That `total_len` is the Content-Length
before the body begins is part of `HeaderRead`, wherever in the header that line
is. `Unfinished` gives the half of `CompletedExactly` that says "not before": every
other place has a character of the message still to come. The value of the length
is `Stoi`, a fold, of which the proof needs no more than what `IsMessage` says.

Only model-checked: liveness (fairness and ENABLED are outside the prover).
`HttpServer` has no passing run: what it shows is a counterexample, like the other
runs of section 5. `HttpServer` itself reads with a fold over the piece, and what a
fold computes for every message is out of the provers' reach.

## 5. What the checks found

Four runs end in a counterexample; the lines are under `findings` in `PROJECT.json`:

1. `schedule_co` from another thread loses coroutines (`Coroutine.cpp:83`): the
   pushed coroutine stays in the queue, for this one hand-over or, when the flag
   is set after `handle_co` ended, for ever.
2. An output buffer that grows twice loses bytes (`Buffer.cpp:92`).
3. A connection whose end of file and writability come in one batch is closed
   twice, and the assertion of `full_close` ends the loop (`TcpConnection.cpp:62`).
4. A request that arrives in two reads is answered with 400 (`HTTPServer2.cpp:37`).

Further disagreements that the models contain as steps or exclude by a named bound,
without a run of their own (the first fourteen are listed as findings too):

* A `write_lower` that sends and then half-closes has its output cut off
  (`TcpConnection.cpp:151`, against `readme.md:85`): `handle_write` tests the state
  after the callback and does not look at the buffer again, and `WriteTail` shuts the
  write side down with bytes `pending`.
* `stop()` before `run()` is lost (`EventLoop.cpp:26`): `Run` after `Stop` in
  `EventLoop`; `LoopEnds` speaks of a running loop only.
* A timer just under the limit fires a revolution early when the wheel is behind
  the clock (`TimerScheduler.cpp:21`): the timers that `FiresInItsSlot` excepts by
  name (`far`), which `timer_wheel` has. When such a timer is removed after it fired,
  a freed list node is erased (`UnlinkFreed`).
* `~TCPClient` closes its fd number twice (`Eventloop.hpp:64`): `DestroyConnector`
  when somebody else holds the number.
* `accept_cb` goes on after it closed a refused connection (`TCPServer2.cpp:59`).
* The connector's socket is non-blocking from the start (`TCPConnector.cpp:29`), so
  every connection takes a retry.
* `event_list` does become smaller (`Poller.cpp:39`).
* While one thread is between the two statements of `schedule_co` for another
  thread's scheduler, that scheduler's `handle_co` runs with `is_schedule` false, and
  a `co_sleep` that is already due locks the loop's mutex twice
  (`Coroutine.cpp:86`). With the constants of `co_across`, but `DueSleeps = TRUE`,
  TLC finds `NoSelfDeadlock` of `CoScheduler` violated.
* A Coroutine is back in the pool while its thread is still on its stack
  (`Coroutine.hpp:55`): a second scheduler may take it from the pool and overwrite
  it, and in the same instance TLC finds `StackExclusive` violated.
* The pool's queue and count are changed without its mutex (`Coroutine.hpp:56`); that
  accesses tear is below the level of the model.
* `_co_io_fun` parks on every error (`co_fun.cpp:30`): a write to a full pipe whose
  reader is gone is never woken, for a hang-up without the event asked for is
  swallowed and disarms a one-shot channel (`Poller.cpp:60`, `HupEvent`); a read of a
  reset connection reports the end of the stream; an accept without descriptors ends
  the program.
* A query key without `=` ends the program (`HTTPMessageParser.cpp:341`), as does an
  `&` in the path (`NoKey`, phase `aborted`).
* An empty header value takes the next line for itself, or keeps the message from
  being complete (`HTTPMessageParser.cpp:187`).
* Header names are compared letter by letter (`HTTPMessageParser.cpp:198`), a `=` or
  `?` in a query value is misread, and other methods and codes are refused. Of two
  headers or keys with one name the last stays.
* The enable bits of a one-shot channel stay (`co_fun.cpp:33`): a coroutine that
  reads an fd after it has written it is watched in both directions.
* Accepted sockets are blocking (`TCPServer2.cpp:56`), so a `co_read` blocks its
  whole loop (`IoWait`).
* Coroutines that are always ready keep the loop from polling (`Coroutine.cpp:94`).
* What remains of a partial write is offered again with the next piece only
  (`HTTPServer2.cpp:24`); the request's own text is written before the answer; a
  response without a body has no empty line (`HTTPMessageParser.cpp:130`), and its
  version and code are whatever was in memory (`HTTPServer2.cpp:28`).
* `Buffer::pop(len)` drops everything; `push_from` never moves data to the front
  although `Buffer.hpp:8` says so.
* A log that straddles blocks is copied from its beginning twice (`Logger.cpp:102`),
  so the file shows its first characters again; the trim keeps the excess where
  `readme.md:45` says it removes it (`Logger.cpp:129` and `132`).
* `remove_timer` ignores a timer of the slot being fired; `getLoop` never rotates.
* An empty message ends the loop (`TcpConnection.cpp:140`).
* A body of one character is read as empty (`HTTPMessageParser.cpp:153`), a
  response's detail is taken one character late and two too long (line 225), `code`
  is compared with -1 before it is set (line 249), and a message that comes in one
  piece with the next is never complete (line 401).

## 6. Not modelled

Data races below the level of one access (two threads inside one `std::list`
operation, among them `trigger_timer` against `add_timer` of another thread);
exceptions thrown by `assertm`, except where a label stands for them; the contents
of logs and of the bytes a connection carries; the assembly of `co_swap`; the
logger's synchronous mode, which no code selects, and its roll to a new file;
`logger/blockqueue.cpp`, which nothing uses; a second `run()` of a client; fds that
two coroutines share; a coroutine server above `max_conn_num`; the writer for HTTP
requests, which nothing calls; a coroutine that uses two fds; calls that fail for
want of descriptors or memory; `join` of the loop pool.

The modules were built in this order: `TaskExecutor`, `EventLoop` and its proofs,
`CoScheduler`, `TimerWheel`, `Buffer`, `Logger`, `TcpConnection`, `HttpParser`,
`CoIo`, `TcpClient`, `HttpServer`, the proofs about connections, buffer, client,
scheduler, coroutine I/O, timing wheel and logger, `TimerQueue` with its refinement,
and the proofs about the parser.
What would come next: an abstract connection (bytes in order, closed once) that
`TcpConnection` refines with its output as bytes of a `Buffer`; a specification of
one request and its answer that `HttpServer` would implement once the findings about
it are settled.
