# TLA+ models of nanonet

nanonet is a C++ library for network services: a TCP server framework, sockets
with their streams, a thread pool with its queue, logging, a configuration
parser and assorted utilities. This directory holds TLA+ models of its
components, TLC configurations that check them on small instances, and proofs
for TLAPS. Source paths below are relative to the repository's root; in
`PROJECT.json` they carry the prefix `src/`.

## Inventory

| Component | State | Operations | What is hard |
|---|---|---|---|
| `safe_queue` (`include/nanonet/safe_queue.h`) | queue, mutex, two condition variables | `push`, `pop`, `empty`, `full` | notification after the unlock, spurious wakeups, the bound, stale answers |
| `thread_pool` (`dispatch.h`, `dispatch.cpp`) | a `safe_queue` of tasks behind a pointer, worker threads | constructor, `dispatch`, `dispatch_returning`, move, destructor | end tokens and tasks in one queue, references into the caller's frame, tasks that dispatch tasks |
| server (`sys/server.h`, `src/sys/server.cpp`) | running flag, `server_status`, detached connection threads | `run_server` in three modes, accept loop, connection threads, `~server_manager` | lifetime of the status, shutdown noticed by polling, failures at any step, signals |
| resources (`util.h`: `auto_resource`, `increment_sentry`) | a handle | construct, move, `reset`, destroy | every handle disposed of once |
| stream sockets (`network.cpp`, `detail/network.cpp`, `detail/socket.h`, `sys/network.h`) | descriptors, blocking mode, address lists | bind, listen, connect and accept with timeouts | EINTR, timeouts racing with success, one address of several failing |
| addresses and datagram sockets (`detail/net-address.h`, `sys/network.h`, `network.cpp`, `sys/net-util.cpp`) | local address, peer, receive buffer, pending error | constructors, `connect`, `send`, `receive` with a timeout | calls of several threads on one socket, packets lost, repeated or refused, signals |
| stream buffers (`util.h`: `ostreambuf`, `istreambuf`) | buffer and its pointers | `overflow`, `sync`, `underflow`, move, destroy | partial and failing writes, putback area at end of file |
| util algorithms (`util.cpp`, `util.h`, `container-util.h`) | none, or a container's | `getline`, `split`, `splitter`, `trim`, `chop`, `canonical`, `to_fractional`, `check_long`, times, `capped_vector`, ranges | boundaries |
| POSIX wrappers (`posix/wrappers.*`) | none | `sleep`, `read`, `write`, clocks, signals | EINTR |
| `syslogger` (`sys/syslogger.*`) | priority of the current message, minimum levels, echo stream | `<<`, flush | a message longer than the buffer |
| registry (`registry.*`) | a token of lookahead, line number, key/value store | lexer, parser, `read_from`, typed lookup | one lookahead shared by three readers, comments and strings, reads that fail half way |
| HTTP (`http.*`) | none | `wget`, response headers, `parse_get_request` | where a URL and the headers end |
| XDR (`xdr.h`) | stream position | encode, decode | widths |
| estimators (`math-util.*`) | last time, running average | `update`, `estimate` | times that go backwards, floating point |
| errors, assertions, `database.h`, `random.h`, `units.h`, `type_traits.h`, Windows port | none or a wrapper's | – | not modelled, see below |

How they interact: `thread_pool` owns a `safe_queue`, on which clients push and
workers pop. The server accepts connections (sockets), wraps them in streams
(stream buffers over a socket), serves each in a detached thread, counts them with
`increment_sentry` and logs through `syslogger`, which is itself an
`ostreambuf`. HTTP is a client of the sockets and streams.

What makes each component correct: the queue is an atomic FIFO that nobody sleeps
on beside work; the pool executes each accepted task once, and all of them before
it is gone; the server's state outlives its threads and a shutdown, once
requested, completes; a handle is closed once and a timeout is told from an error;
a stream delivers every character once and in order; what is received from a
datagram socket was sent, by the address it says; every token of a text reaches one
reader, and a store holds what was read and nothing else; what is encoded is decoded
again, what is cut is cut where the documentation says, and a message reaches the log
with its own priority.

## Modules

* `Fifo` – what a queue promises: `push()` and `pop()` take effect at one instant
  between call and return.
* `SafeQueue` – `safe_queue` at the grain another thread can observe: acquiring
  the mutex, the critical section up to `wait()` or the unlock, the notification
  after it. `q` is the `std::queue`, `m` the owner of the mutex, `pc` and `val` the
  threads in their calls; the threads at `pop_wait` and `push_wait` are the wait
  sets of `has_data` and `has_space`. `hint` is a history variable: what a thread
  may conclude from its last `empty()` or `full()`.
* `ThreadPool` – the pool over an atomic unbounded queue (this is what
  `SafeQueue` is shown to implement). `queue` holds tasks and end tokens
  (`NoTask`); `stack[a]` holds the tasks a thread executes, nested when a pool
  without workers executes them in the caller; `wait[a]` is the future it blocks on;
  `holder` is the object that owns the pool as it is moved around. `dispatched` and
  `started` are histories. The size is a variable fixed by `Init`, so one run covers
  several sizes.
* `Server` – `run_server()`. `mpc` is the calling thread, `spc` the accept loop
  with its final wait, `conn[c]` the thread of connection `c`. Each call of the
  accept loop is an incarnation with a `server_status` (`statusAlive`) and a counter
  (`count`) of its own. Handlers, welcome functions and clients choose freely
  among the outcomes the code tells apart.
* `Sockets` – the constructors of `connection` and `acceptor` and their
  destructors. `st`, `nonblock`, `local` and `peer` are what the kernel keeps of a
  descriptor; `owner` says who will close it: an object, the stack of the call in
  progress, or nobody yet (between `accept()` and the construction of the socket).
  `op` is the call in progress with its position `k` in the nested loops over the
  addresses, `last` the last call with its outcome. `world` fixes what becomes of a
  connect to each address; any system call may fail beside that, which `os` records.
  `lost` is a history variable.
* `Streams` – an onstream and an instream that share the socket of a connection,
  and the peer. Characters are numbered in order, so a character shows its place.
  `o.buf` is what is between `pbase()` and `pptr()`, `wire` what the peer receives;
  `i.mem` is the whole buffer of the instream with the putback area in front, `eback`,
  `gptr` and `egptr` are positions in it. `partial` and `starved` are history variables:
  a write has failed after sending a part, a read has failed or met the end.
* `Addresses` – families, addresses and what the resolver returns; `Datagrams` –
  `datagram_socket` used by several threads. `local`, `peer`, `queue` and `err` are what
  the kernel keeps of a socket, `call[t]` is the `receive()` of thread `t` between its two
  waits. The network (`Deliver`, `Lose`, `Refuse`) keeps, repeats, reorders and refuses
  packets. `bound` (the sockets that the program bound), `sent`, `refused`, `dropped` and the
  field `raced` of a call are histories.
* `Lexer`, `Parser` – the registry's lexer and parser as operators on a lexer object: a
  text, the number of characters taken and the members of the class. They return the
  object as it is left. `Values` – what the parser builds and the store keeps. `Store` –
  `kv_map` with `add_any()`, `clear()` and the typed lookups; `pairs` (calls of `add_any()`)
  is a history. It knows nothing of texts.
  `Registry` – a client that owns a lexer and takes, peeks at and puts back tokens, and
  registries that read sections of the same text or a file into the store. `given` (tokens
  delivered) is a history. `RegistryText` – what a `Registry` delivers and stores against its
  text: a stored pair written out in tokens (`RenderPair`), the text read in one go (`Rest`),
  and the properties that compare them. The loops of the lexer and the calls of the parser are
  functions of the number of turns, or of the depth, that is left; `NothingIsCutShort` shows
  that these bounds are none.
* `Text`, `Http`, `Xdr`, `Containers`, `Numbers`, `Syslogger` – the sequential parts as
  operators, one module per source. `Algorithms` composes them: inputs grow step by step (a
  text is typed, a vector pushed and popped, items are written, times recorded, lines
  logged), and each invariant compares an operator with a reference definition that is
  written another way. The steps of the `rate_estimator` and `TimesRight` are in
  `Numbers`, the writer, the reader and `XdrRoundTrip` in `Xdr`, the events of the logger and
  `LogRight` in `Syslogger`, for the sake of the theorems about them.
* `MC_SafeQueue`, `MC_ThreadPool`, `MC_Server`, `MC_Sockets`, `MC_Streams`,
  `MC_Datagrams`, `MC_Registry`, `MC_Algorithms` – constants for TLC.
* `SafeQueueProofs`, `ThreadPoolProofs`, `ServerProofs`, `SocketsProofs`,
  `StreamsProofs`, `DatagramsProofs`, `RegistryProofs`, `AlgorithmsProofs` – theorems.

Definitions named `X_Y` after a comment "Mutation" are variants of `X` with a
plausible bug; nothing uses them but the mutation tests listed in `PROJECT.json`,
which show that each property notices one.

### Correspondence

| Code | Definition |
|---|---|
| `push()` | `PushCall`, `PushLock`, `PushWait`, `PushItem`, `PushNotify` |
| `pop()` | `PopCall`, `PopLock`, `PopWait`, `PopItem`, `PopReturn` |
| `empty()`, `full()` | `Empty`, `Full` |
| `thread_function()` | `WorkerPops`, `WorkerExits` (and `TaskEnds`) |
| `dispatch()` | `dispatch`, `dispatch_throws` |
| `dispatch_returning()` | `dispatch_returning`, `WaitReturns` |
| `~thread_pool()` | `DestroyMovedFrom`, `DestructorBegins`, `DestructorPushes`, `DestructorJoins` |
| `run_server()` | `StdioCheck` … `ForegroundReturns` |
| `server_thread::operator()` | `ServerCheck` … `ServerSleepThrows` |
| `connection_thread::operator()`, `handle_connection()` | `ConnBegin` … `Drain` |
| destruction of a `connection_thread` | `SentryReleased`, `SocketClosed` |
| `~server_manager()` | `DestroyManager` |
| `connection::initialize()`, `bound_socket()` | `Trying`, `SkipPair`, `MakeSocket`, `Abandon`, `NoMorePairs` |
| `my_connect()` | `ConnectBlocking`; `ConnectNonblocking` … `BackToBlocking` |
| `my_accept()` | `CallAccept` … `AcceptBlocking` |
| `my_bind()`, `my_listen()`, `getsockname()`/`getpeername()` in the constructors | `Bind`, `ListenSocket`, `Names` |
| unwinding and destructors | `Throw`, `Abandon`, `Destroy` |
| `ostreambuf`: constructors, `overflow()`, `sync()`, `flush()`, destructor | `OpenOut`, `Put`, `Sync`, `Flush`, `DestroyOut` |
| `istreambuf`: constructors, `underflow()`, destructor | `OpenIn`, `Underflow`, `UnderflowFails`, `DestroyIn` |
| `socket::write()`, `socket::read()` | `WriteAll`, `WriteFails`; `Underflow` |
| `datagram_socket`: constructors, `bound_socket()` | `NewUnbound`, `NewBound`, `NewConnected`, `NewConnectedTo` |
| its `connect()`, `send()` | `Connect`, `ConnectName`; `Send`, `SendTo`, `SendName` |
| `receive_internal()` | `Receive`, `SelectReady`, `SelectTimeout`, `RecvInterrupted`, `RecvThrows`, `RecvPacket` |
| `lexer::get_token()`, `munch_till_asterisks_slash()` | `LexToken` in `Scan`, `QuotedFrom` in `Quoted`, `Number`, `Identifier`, `SkipBlock`, `GetToken` |
| `parse_pair()`, `parse_term()`, `parse_list()` | `ParsePair`, `TermAt` and `ListAt` in `Run`, `ParseTerm` |
| `registry::read_from()` | `ReadFrom`, `ReadFile`, `ReadPair`, `ReadEnds` |
| `add_any()`, `check_…()`, `convert()`, `get_default()` | `Added`, `Check…`, `Convert…`, `GetDefault…` |
| `syslog_writer::write()`, `log_error()`, `testmode_sentry` | `FlushLog`, `LogError`, `SentryEnters`, `SentryLeaves` |
| `wget()`, `wget1()`, `parse_get_request()` | `ParseUrl`, `RequestLines`, `WgetBody`, `ParseGetRequest` |

Abstractions: elements, tasks and connections are model values; an input line is
a Boolean (`inbox`), since only its presence matters to the control; log output is
left out except for the lifetime of the log stream; times are left out, a timeout
is an outcome that may happen whenever the call blocks (`AcceptTimeout`,
`InputEnds`, `SelectTimeout`). A character stands for its class (letters, digits, white
space, what no token contains), in `Http` a symbol for a word; a number in a text is
counted in tenths and has no exponent; a double is a multiple of 1/`Unit`; a byte has
`ByteBase` values. A packet is a number, its two addresses and its length; a host is the
wildcard, this machine or another one.

## Runs

| Run | Instance | Shows |
|---|---|---|
| `queue_bounded` | 2 writers, 2 readers, 2 values, capacity 2, backlog 4 | no lost wakeup of readers or writers, answers of `empty()`/`full()` that a sole caller may rely on, refinement of `Fifo` (order, capacity) with its liveness |
| `pool` | 0, 1 and 2 workers, owner and one client, 3 tasks, 2 objects | all accepted tasks executed, FIFO order with at most one worker, references alive, no deadlock, destructor and calls return |
| `pool_late` (violation) | 1 worker, 2 tasks | a task dispatched by a running task after the destructor has begun is dropped |
| `server` | 2 connections; stdio, foreground (two sets of parameters), background; one interrupted sleep | exact count, status outlives threads, guarantee on return, retries, shutdown ends but for two unlimited waits |
| `server_interrupted` (violation) | 1 connection, one interrupted sleep | `run_server()` returns with a connection active |
| `server_log` (violation) | background, no log stream given | the manager logs to a destroyed stream |
| `sockets` | 2 descriptors, 3 addresses of 2 families, remote and local lists of up to 2, every combination of reachable addresses | no descriptor left behind, only established connections, first reachable pair used, blocking mode restored, calls end |
| `sockets_accept` (violation) | 2 descriptors, 1 address, 1 client | an accept without a timeout fails at once after one with a timeout |
| `streams` | buffers of 2, putback area of 2, 4 characters each way, 2 failing writes | every character once and in order, no early end of the data, right characters after reads and after putting back |
| `registry` | all texts of up to 2 of 15 characters, comments and strings with 3 free characters, 6 beginnings of a configuration with up to 2 of 9 parts; three grammars | every token delivered once, lines, store and lookups right, comments leave no trace |
| `algorithms` | texts and URLs of up to 5 characters, a vector of 4, 2 items of XDR written and read in any order of the two ends, 3 times of 12, 4 calls on a logger with a buffer of 3 | the operators of the sequential modules agree with their reference definitions |
| `datagrams` | 2 sockets, 2 threads, addresses of both families, 2 calls of `send()`, receive buffers of 2 packets | contents and source of what is received, silent drops, exclusive addresses of bound sockets, timed receives |

Bounds. Capacity 2 with two writers and two readers lets two threads sleep on
either side while two others are between unlock and notify, where a wakeup could get
lost; a backlog of 4 (pushes in progress and queued) fills the queue with both
writers waiting. Three tasks let a task dispatch another one while a third is queued,
on each of the sizes where the code differs (no worker: the caller executes; one: FIFO
is promised; two: it is not). Two connections let one be served while another is
accepted, refused or drained. Two descriptors let an acceptor exist beside a
connection and let `socket()` and `accept()` run out of them; lists of two addresses on
either side with both families contain a pair to skip, a pair to fail and a pair to
succeed in each order. Four characters fill a buffer of two places twice, so that the
putback area is filled from a full and from a partly read buffer; two failing writes let a
repeated flush fail again. Two packets and two threads let one thread take the packet, or
the error, that another one's `select()` has seen, and let a refusal of the first packet
meet the second. The system has one port to choose from, that of a service, so that two sockets
share it: two that were not bound, or one of them with a bound one. Texts of two arbitrary characters contain every pair of character
classes; three free characters inside a comment contain `**/`, `/*/` and a comment inside a
string; the longer texts nest lists two deep, ragged and not, and are cut off anywhere. A
buffer of 3 with messages of 0 to 5 characters has lines that end before, at and after its
end, and messages of two buffers. `MaxBacklog`, `Tasks`, `Conns`, `MaxInterrupts`, `Fds`,
`MaxWaiting`, `MaxChars`, `MaxFailures`, `MaxPackets`, `MaxQueue`, `MaxPairs`, `MaxText`,
`MaxItems` and `MaxEvents` are the only bounds; they appear in guards or as the size of a
set. The unbounded queue is not run on its own: it differs from the bounded one in the
test of `IsFull` and the notification of writers, and the theorems of `SafeQueueProofs`
hold for both.

Symmetry is used in `datagrams` only: no definition chooses among sockets or threads.

Deadlock is checked in `pool`, where only the finished program may stop
(`Finished`), in `sockets`, where a new call or a client is always possible, and in `datagrams`. In the
other runs the system may stop legally: readers of an empty queue
wait when nobody writes, a server that has ended is done, and so are streams that are
destroyed, texts that are read and inputs that are as long as they get.

Fairness. A thread that can take a step of its own does so (weak fairness); the
mutex of the queue is granted to a thread that keeps asking (strong fairness of
`PushLock` and `PopLock`; a mutex that starves a thread for ever would break every
liveness claim about the code). Tasks end. A blocked read or accept ends with its
timeout, which the server sets on each socket. The read of standard input in test mode
(`test:stdio`) has none and nothing is assumed of it: weak fairness is for the other steps of
`run_server()` (`Unattended`). A call in progress on a socket goes
on when it can (`CallStep`; an accept without a timeout and without a client cannot).
Nothing is assumed of callers, clients or
spurious wakeups, nor does anybody have to request a shutdown or to destroy the
pool.

### Findings

1. `pool_late`: "Causes the dispatching thread to exit after all queued tasks have
   been executed" (`include/nanonet/dispatch.h:98`) does not hold for tasks that
   running tasks dispatch once the destructor has pushed the end tokens
   (`src/dispatch.cpp:63`). `AllExecuted` holds when tasks do not do that (`pool`,
   `LateDispatch = FALSE`).
2. `server_interrupted`: `sleep()` throws when a signal interrupts it
   (`src/posix/wrappers.cpp:128`), so the wait for the connections
   (`src/sys/server.cpp:313`) may be left early, and the guarantee at
   `include/nanonet/sys/server.h:249` fails. `ShutdownCompleteUndisturbed` is what is
   left of it, and it is proved.
3. `server_log`: with `sl == nullptr` and `background`, the stream handed to the
   manager is destroyed on return (`src/sys/server.cpp:393`), against
   `server.h:241`.

4. `sockets_accept`: `my_accept()` with a timeout puts the acceptor into non-blocking
   mode for good (`src/detail/network.cpp:101`), so a later accept without a timeout
   does not wait, against `include/nanonet/sys/network.h:396`. A server is not
   affected: it always accepts with a timeout.

Observations that no run is spent on: in stdio mode a `shutdown_exception` is
logged and does not clear the running flag (`server.cpp:355`, see `StdioLine`), and a
client that keeps sending while its connection is drained keeps a shutdown from ending
(`server.cpp:167`), and so does the read of standard input in test mode when it was requested
from outside (`server.cpp:352`): `ShutdownEnds` names both as its exceptions and fails without
either; a timed `connect()` that succeeds at once leaves
its socket in non-blocking mode (`detail/network.cpp:152`, `early` in `Sockets`); a
timeout of a connect reaches the caller as a `runtime_error` (`network.cpp:210`, against
`sys/network.h:378`), and applies to each address of the list anew. In the streams, a
partial write is repeated from its beginning (`detail/socket.h:145`, a TODO of the code,
hence `partial`); after a failed `overflow()` the buffer is full, and an application that
clears the stream must flush it before it puts anything else (`Careful`, the assertion
`util.h:930`); after a failed `underflow()` the contents of the putback area no longer
belong to the pointers (`util.h:960`), so what is put back then may be another
character (`starved`), while characters not got before are still right (`FreshRight`).

In the datagram sockets: a refusal that is pending makes the next `send()` drop its packet
in silence, while `receive()` throws it (`sys/network.h:663`, `DropsExplained`); two timed
receivers, or a sender that consumes the pending error, can make a timed `receive()` block
beyond its timeout, since only `select()` has one, although the class calls itself thread
safe (`sys/network.h:131`; hence `raced` in `TimedReady`); packets that were queued before
`connect()` are still received after it, whoever sent them; `SO_REUSEADDR` is set after
`bind()` and has no effect on it (`network.cpp:326`), which is what keeps `BoundExclusive` true;
it is set before the system chooses the port of a connected or an unbound socket
(`network.cpp:335`, `:376`), which may therefore be shared with another socket, also with a bound
one (`Automatic`, `NewConnectedTo`), and nothing is claimed of it.

In the registry: `get_default()` of a list of numbers or strings throws for every list
that was read, because a list is stored as a vector of `std::any` (`registry.h:697`); `/*`
outside of the C style is a token for `*`, `/` before any other character an
exception in all styles, `//` begins a comment in the percent style, too; a comment that
is not closed ends the text without an error.

In the sequential parts: `trim()` returns its argument (`util.cpp:115`, against
`util.h:238`), so `parse_get_request()` does not see the empty line of a request that ends
its lines with `\r\n`, as `wget()` sends them, and throws: `BodyRight` states that, beside what is
read when the lines end plainly;
a loop over `getline()` does not see a last line without an end unless it fills the limit;
`distance_at_least()` of an input iterator is false on an empty range also for a distance
of 0; `end()` of a `capped_vector` is the end of its array; floating point numbers are
written to XDR in the byte order of the machine; a log message of a multiple of the size
of the buffer is followed by an empty entry, and the rest of a longer one has the default
priority (`syslogger.cpp:135`); a `testmode_sentry` leaves its clock and the default
minimum level behind.

## Proofs

All theorems hold for every value of the constants that satisfies the named
assumptions (`QueueAssumption`, `PoolAssumption`, `ServerAssumption`, `SocketsAssumption`,
`StreamsAssumption`, `DatagramsAssumption`, `TextsAssumption`, `GrammarsAssumption`,
`MaxPairsAssumption`, `UnitAssumption`, `ByteBaseAssumption`, `BufferSizeAssumption`,
`CharactersAssumption`, `VectorAssumption`): a finite set
of threads or connections, texts over the characters of `Lexer` of any length, grammars whose
lists and expressions have one of the three pairs of brackets, a capacity of at least 1 (the
constructor checks it), buffers and a putback area of at least 1, a positive unit, distinct "no
value" constants; for the sequential parts texts over some of the classes of characters that
`Text` tells apart, URLs over any symbols, a vector of any capacity with elements that compare
like integers.

* `SafeQueueProofs`. `TypeCorrect` carries mutual exclusion: a thread is at a loop
  test exactly if it owns the mutex. `CapacityRespected` needs only that.
  `NoWakeupOfReadersLost` is inductive together with types, because its statement
  already counts who takes care of each element: threads that will fetch one and
  threads that have yet to notify. A push adds an element and a notifier; a pop
  takes an element and its fetcher; a notifier leaves by adding a fetcher unless
  nobody sleeps; a thread goes to sleep only when there is no element. Cardinalities
  of these sets are handled by lemmas on adding and removing one thread.
  `NoWakeupOfWritersLost` is its mirror image, with the free places for the
  elements; `NoWakeupLost` has both. `AnswersStayTrue` consists of `PopAfterEmpty` and
  `PushAfterFull`, which strengthen the statement by what a hint says of the queue ("data": it is not empty). `QueueImplementsFifo` maps each action to
  one of `Fifo` or to a stutter under the mapping of `SafeQueue!F`.
* `ThreadPoolProofs`. On `TypeCorrect` and `LifeCorrect` (who is where in each phase of the
  pool) rests `TasksInPlace`: a task is in the queue once while it is queued (`QueueInv`) and
  on one stack once while it is running (`StackInv`). `ReferencesAlive` follows with the
  fact that a wrapped task has been dispatched: the caller leaves when the future is ready,
  which only the end of the task makes it, and a task ends on one stack only.
  `OrderCorrect` relates the histories to the queue, for any number of workers and late
  dispatches: what began is a prefix of what was accepted (`Prefix`), the rest is in the
  queue (`Waiting`) and nothing else is (`Accepted`), in the order of acceptance (`Ordered`),
  and nothing is accepted twice (`Known`, `Once`). `SingleInv` says of one worker that the
  task that began last is at the bottom of its stack until it ends; `FifoGuaranteed` is
  `OrderInv` and `SingleInv` together. `EndInv` says that the end tokens are behind all tasks,
  so that a worker has left no task behind when it takes one. That is false when a running task
  dispatches another one during the destruction, which the run `pool_late` shows, so
  `AllTasksExecuted` assumes `~LateDispatch`.
* `ServerProofs`. `ControlHolds` relates the program counters of the threads (which
  mode, incarnation and manager go together). On top of it come the types,
  `CountIsExact`, and `StatusIsSafe`, whose invariant says that without an interrupt
  every active connection belongs to the current incarnation and that this one has its
  status until the count was read as 0. `ReturnMeansShutDown` combines the three:
  `run_server()` returns after that read, the count is exact, and no connection is
  accepted afterwards.

* `SocketsProofs`. The types alone are not inductive: that the pair of the current
  iteration exists needs the bounds of `k` against the lengths of both lists
  (`OpInv`, with `LoopIndices` for the arithmetic of the nested loops). `Held` says
  that an open descriptor without an object is the one of the call in progress or is
  in `lost`, and that the socket is connected at the steps from which it can be handed
  out; `NoDescriptorLeaks` and `OnlyEstablished` follow. One lemma per action, on top
  of lemmas for what actions have in common (`AbandonInv`, `ThrowInv`,
  `AcceptThrowsInv`, `BeginInv`). Outcomes have an invariant of their own (`OInv`): while a
  call is in progress there is nothing to be judged, and `PairInv` carries what it has to
  know until then, that no pair before the current one can be connected (`NoneBefore`), that
  the current one is of one family and that the socket has its local address.
  `FirstPairReached` needs that the loop counter numbers the pairs in the order of `Before`
  (`RowOrder`, `RowBound`, `RowOf`, `FirstRow`), for lists of any length. `SocketsBlockAgain`
  needs `BlockInv`, the mode at the last step of a timed constructor, and which steps belong
  to which call (`KindInv`).

* `StreamsProofs`. The two directions share only the socket, so each has an invariant of
  its own, and the actions of the other leave it alone. `OutInv` adds to `WireExact` that
  the socket is shut down exactly when the onstream is gone; `FlushInv` is the one lemma
  about `flush()` that `Put`, `Sync` and `DestroyOut` use. `InInv` adds that no
  more characters can be put back than were got; `Moved` says what `memmove()` does.
  `FreshRight` survives a failed read, which spoils the putback area, because everything
  in the buffer had been got by then.

* `DatagramsProofs`. The four properties become inductive together with three facts
  (`IInv`): packets under way or in a receive buffer were sent, and lie only in buffers
  they are addressed to (`Delivered`); a socket without a port has received nothing, and
  one that does not exist is blank (`Blank`); calls are made on sockets that exist
  (`CallsOpen`). `BoundExclusive` needs that `bind()` asks for an address that no socket has and
  that a bound socket has one, so that the system chooses none for it; `connect()` narrows a
  wildcard to a host and cannot create an overlap. Of the ports that the system chooses nothing
  is needed, they may be those of other sockets. `ReceivedRight` rests on `Delivered` at the step of
  `recvfrom()`, and survives a `connect()` in between for the same reason. `TimedReady`
  survives other threads' steps because each of them that takes something marks the waiting
  calls as raced. One lemma per action, with common ones for a new socket, a new local
  address and a packet that leaves.

* `RegistryProofs`. First the store, under `StoreSpec(K, V)`: pairs with any keys of `K` and
  values of `V` are added in any order, with and without the check for redefinitions, and
  cleared. For `StoreIsRight` the property is taken apart into `KeysKnown` and `LastWins`, which
  are inductive with the types: a refused pair (`RefusedPair`) changes no value and is not
  accepted, an accepted one (`AcceptedPair`) ends the validity of its predecessor.
  `LookupsAreRight` has one lemma per family of lookups, which says exactly when it succeeds;
  they hold of each value, and need from it only that its type is one the parser builds, its
  number is an integer and its elements are such values again (`Closed(V)`, which
  `NumbersAreClosed` shows can be met).

  Then the lexer and the parser, on all texts. Each operator gets a lemma that says how the
  lexer it leaves relates to the one it took: further in the same text with the lines between
  them counted (`Goes`), or an exception (`Later`). `LinesAreRight` follows, whatever the client
  and the registry do in turn. A parsed value is one of `AllValues`, values nested to any
  depth, so that each step of `Registry` is a step of `StoreSpec` with these values or leaves the
  store alone (`RegistryIsAStore`), and what was proved of any store holds of what is
  read: `ReadingIsRight`, `ValuesReadAreRight`.

  `TextIsAccounted` is about tokens. `Reads(l, s, m, ps)` says that the tokens `s` are read between
  the lexers `l` and `m`; it composes, and each operator of the lexer and the parser has a lemma
  that says what it reads: a token, an element with its comma, a value written out. The calls of
  the parser nest, so `CallsRead` is an induction over their depth. The property is not inductive:
  that `putback()` returns the token delivered last needs `LastIsTaken`, that nothing is
  delivered after the end needs `EndIsLast`, `FileAtEnd` and `CallBeforeEnd`, and the history has to
  be written out after pairs of any depth (`HistoryTyped`). These with `Accounted`, which is the
  property up to the lexer in use, are `TextInv`. What `Rest` and `Render` return does not depend on
  the number of turns they are given, once it is enough (`RestEnough`, `RenderSame`).

  Then the bounds of the recursion. `Ahead(l)` is the number of tokens up to the end or an
  exception. A turn of a loop takes a character, and of two calls of the parser, one in the
  other, one takes a token; so the results stop to depend on the bound before it is reached
  (`QuotedSettles`, `ScanSettles`, `RunSettles`). `NothingIsCutShort` concludes that `Quoted` and
  `Scan` solve the equations of the loops without a bound, and that no depth beyond that of
  `ParseTerm` changes a value.

  `CommentsAreBlank` compares two lexers: one on the text, and its `Twin` on the text with the
  comments that the automaton `Modes` finds replaced by blanks. The automaton looks at one
  character after the other, the lexer skips and reads whole tokens, so there is a lemma for
  each token that both lexers read it alike and leave the automaton in the code or at the end
  of the text (`Good`): numbers, identifiers, strings with what looks like a comment in them
  (`QuotedTwin`). Where the lexer skips a comment its twin sees white space up to the same place
  and line (`LineComment`, `BlockComment`, `SpaceOver`). `ScanTurn` puts them together for one
  turn of the search for a token, and inductions over the characters and the tokens that are
  left (`ScanTwin`, `RestTwin`) for the text. It is proved of both quotes; the run has double ones.

* `AlgorithmsProofs`. Of `Numbers`: rounding is division rounding down (`Division`) and off by half at most
  (`RoundUpNear`); `FractionIsRight`, `ClockIsRight`, `DayIsRight` and `IntegerIsRight` follow for
  all times and bounds that the assertions of the code admit, however fine the unit. The
  hour that 60 minutes carry over keeps the sum, which is the heart of `ClockIsRight`. For
  `TimesAreRight`, `RateInv` adds to `RateRight` that the event with the last place has the time
  of the estimator (`LatestIsLast`), from which the next interval is counted.

  Of `Xdr`: `XdrIsRight` is about `XdrSpec(I)`, a writer of any items and a reader somewhere
  behind it, with `IsItem` saying what an item can be: an integer of each type and value, four
  or eight bytes of memory, a string of any length. An integer of `size` bytes is read by a
  loop, so `ShiftedIs` is an induction over its bytes: after `k` of them the loop has the
  integer divided by `Weight[size - k]` (`DivisionTwice` is the step). `IntegersRead` adds the
  conversion between signed and unsigned, the other two kinds of items need no more than the
  places of their characters (`CharactersRead`). `XdrInv` says where each item starts and that
  the reader is at one of these places; an item that is appended leaves the others where they
  are (`StartsGrow`), and its length is a multiple of four. The only assumption is that a byte
  has two values at least (`ByteBaseAssumption`); the run has bytes of four values, the code
  of 256.

  Of `Syslogger`: `LogIsRight` is about `LogSpec`, a logger of any texts over any characters,
  priorities 0 to 7 and clocks, with a buffer of any size (`BufferSizeAssumption`). What reaches
  syslog and the echo is computed by the code in two loops, over the characters of a line and over
  the buffer, and said by `LogRight` without either: of the events so far, which lines were
  allowed, cut at their line ends and at full buffers. `Wrote` is the invariant of the first loop,
  that the buffer holds what follows the last line end or the last full buffer. `BufferStep` and
  `PutStep` preserve it, `WriteLogIs` is the induction, `FlushSends` and `LineLogged` end the line.
  `LogInv` is the invariant of the steps: levels, echo and stamp are those that the history of
  events says (`Settings`), and what was sent is the concatenation of what each event sent. An
  event more changes no earlier entry (`SentGrows`, `LevelGrows`, `EchoGrows`); there is one lemma for
  each kind of event.

  Of `Text`: what cuts a text is a set of places, and `CutsOf` enumerates it in ascending order; such
  an enumeration exists (`CutsExist`) and is the only one (`EnumerationIs`), so `SplitAny` returns
  the parts between neighbours (`SplitAnyIs`). The loops of the code are recursive functions of the
  place in the text; that they have a value at all is `Solved`, a recursion over places of falling
  rank. For `LinesAreCut` an induction over what is left of the text shows that from each place where
  `getline()` can stop, the loop sees the pieces that are left of this line and those of all later ones
  (`LinesFollow`), for each limit. `PartsAreRight` walks along the same cuts for `split()`, finds the
  first colon and the last character that is not white space for `split_colon_blank()` and
  `chop()`, and goes through the text character by character for the canonical forms, which are
  filters and maps that commute (`KeepsTheSame`, `MapsTheSame`).

  Of `Containers`: `ContainersAreRight` rests on `StackHeld`: the places of the array below the size hold
  what was pushed and not popped. The algorithms on ranges are proved of any sequence: the loops
  over `operator++` arrive where the arithmetic of the random access iterator does
  (`RangesRight`), the strided comparison is about the elements of one residue class (`Strides`), and
  `erase_if()` has, after `k` turns, kept what it should of the first `k` elements and not touched
  the others (`EraseIs`).

  Of `Http`: `HttpIsRight` compares `wget()` with all ways to read a URL. The first slash and the first
  colon before it (`UrlPlaces`) determine the only reading that can be one, without a port
  (`PlainIs`) or with one (`PortedIs`). Of the headers it has to be shown that the blank line
  is the first one that `blank()` accepts, whatever body follows (`BodyAfter`), and that the lines of a
  request, taken apart again by `parse_get_request()`, yield the request
  (`RequestSplit`, `HeaderReads`, `HeadersAre`). With the `\r` that `wget1()` sends the last line is
  neither blank nor has it a colon, so that reading throws there, whatever follows
  (`EndNoHeader`, `HeadersFail`, `RequestFails`).

  The induction theorems of the library have an operator as a parameter. `SetInduction` and
  `Recursion` are induction over the natural numbers for a set, and the existence of a recursive
  function for a step that is a function, derived from the well-foundedness of `<`. With them
  `Weights` shows that `Weight` is what its recursive definition says.

Only model-checked: liveness (`ImplementsFifoLive`, `DestructorReturns`,
`CallsReturn`, `ShutdownEnds`, `CallsEnd`), which is out of the prover's reach. Every invariant that a
passing run checks is stated by a theorem.

## Not modelled

Destruction of a queue in use (the code excludes it); move assignment onto a pool in
use and failing thread creation in its constructor (both terminate the program);
`release()`, `reset()` and move assignment of an `auto_resource` and of the owning streams;
connection rates and the average of `rate_estimator` (floating point, no decision depends on
them); calendar dates (`format_datetime()`, `parse_datetime()`), which are calls of the
system; formatting and reverse lookup of addresses; the times of timeouts, and signals beyond
the interrupted sleep of the server, the failures of `connect()` and the repeated
`recvfrom()`; the tables of content types. `database.h`, `random.h`, `units.h`,
`type_traits.h` and the error helpers have no state machine; the Windows port has the
interface of the POSIX one.

Hazards that are left to the code's callers: a queue destroyed while a thread is inside a
call (`safe_queue.h:48`, a TODO of the code); a blocking `connect()` that a signal interrupts
(`detail/network.cpp:127`, a failure of the system in the model); `poll()` that is repeated
with its full timeout after each signal (`detail/network.cpp:45`).

## Plan

1. `auto_resource` with its moves, move assignment of the owning streams, the reader and
   writer of file descriptors.
2. The server's use of the pieces: `wget()` over `Sockets` and `Streams`.
