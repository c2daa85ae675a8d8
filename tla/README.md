# A TLA+ model of epoll_model

The repository is a small request/response server for a Unix (or IP) stream
socket, and a client for it. This directory models its concurrent core,
model-checks it with TLC and proves its central properties with TLAPS.

## 1. Inventory

| Component | State | Operations | Talks to |
|---|---|---|---|
| thread pool (`server/threadPool`) | `m_tasks`, `m_threads`, `m_validThreadNums`, `m_tpState`, `m_state` of each thread, global `mtx` and `cond` | `initTaskPool`, `addTask`, `needReleaseTaskThread`, `releaseTaskPool`, `delInstance`, `createNewThread`, the thread body `threadfun` | calls `onTaskProcessor` of the task's worker |
| task controller (`server/taskController`) | `m_recvList`: the unfinished request of each descriptor | `onRecv`/`makeNewTask` cut the byte streams into requests, `onTaskProcessor` answers one | called by the receive thread and by the pool; calls `addTask` and `socketBase::send` |
| socket server (`server/socket/socketBase`) | `m_sendDataList`, the descriptors registered with epoll, `m_wtmtx` | listen, send and receive thread on one epoll descriptor; `listen`, `send`, `closeSocket` | calls `onRecv` |
| socket families (`socketUnix`, `socketIPv4`, `socketIPv6`) | `m_socket` | `socket`, `bind`, `connect` | system calls |
| protocol (`protocol/protocol`) | `m_msgId`, `m_instance` | make and parse requests and responses, `getInstance` | used by client and controller |
| client (`client`) | one request and response per thread | `doConnect`, `createClient` | the server, by a stream |
| server main (`server/server.cpp`) | none | builds controller and socket, then sleeps | all of the above |
| hex conversion (`utility/hexChar.c`) | none | `CharToHex`, `HexToChar` | used for the log |
| logging (`utility/seclog.h`, bundled glog headers) | counters of a log site | `SECLOG`, `LOG`, `LOG_EVERY_N`, ... | used everywhere |

What is hard here:

* *Concurrency.* Pool threads, the receive thread, the listen thread and the send
  thread share the queue, the thread list and the descriptors. `m_state` is read
  without a lock; decisions are taken under `mtx` and carried out after it is
  released; joins happen under the mutex that the joined thread needs.
* *Timing.* A wait without the usual recheck relies on its time limit, and a new
  thread is given one second to start.
* *Streams and descriptors.* `recv` cuts messages anywhere; a client may leave at
  any time, and the number of its descriptor is used again while tasks, queued
  answers and unfinished requests still carry it.
* *Failure.* Every system call may fail; some errors return, some are only
  logged, and some are added to an unsigned length.
* *Arithmetic.* Lengths are 32-bit and thread counts 16-bit unsigned numbers.

What makes each component correct: the pool runs each task once, in order, on at
most `m_maxNum` threads, and ends all of them on shutdown; the controller hands
on exactly the requests the clients sent; the socket server delivers a response
once, to the connection its request came from; the codecs are inverse to each other.

## 2. Modules

| Module | Models |
|---|---|
| `ThreadPool` | the pool, detailed |
| `TaskQueue` | what the pool promises, abstract |
| `ThreadPoolProofs` | proofs: types, queue order, exactly once |
| `ThreadPoolThreadsProofs` | proofs: thread count and maximum, shutdown, refinement of `TaskQueue` |
| `ClientProofs` | proofs: one protocol object, ids in range, sockets closed after a send |
| `ClientAnswerProofs` | proofs: types of the client, the answer a thread accepts, where the process can end |
| `TaskControllerProofs` | proofs: the tasks are the requests, copies stay in bounds |
| `SocketServerProofs` | proofs: types of the server, responses sent once and to the right client, TCP descriptors that leak, what `closeSocket` hangs on |
| `ProtocolProofs` | lemmas: what the operators of `Protocol` write and read |
| `CodecProofs` | proofs: requests and responses can be read back, where the size wraps |
| `TaskController` | request framing |
| `SocketServer` | the rest of the server: main, socket families, the three epoll threads, `onTaskProcessor`; uses `TaskQueue` for the pool |
| `Protocol` | the messages, as operators |
| `Client` | the client program; uses `Protocol` |
| `HexChar`, `Logging` | hex conversion and counting log macros, as operators |
| `Codec` | `Protocol`, `HexChar` and `Logging` against what they should compute |
| `MCTaskController`, `MCSocketServer`, `MCClient` | small streams, requests and messages for TLC |

The server is cut in three. `ThreadPool` implements `TaskQueue`; `SocketServer` is
composed with `TaskQueue` instead of the pool's threads; and `TaskController` shows
that `onRecv` turns chunks into whole requests, so that `SocketServer` can receive
requests rather than bytes.

### ThreadPool

A thread is the number of the `createNewThread` call that made it, a task the
number of its `addTask` call. `pc[t]` says where thread `t` is in `threadfun`:

| `pc` | next statement |
|---|---|
| `start` | `*state = 1` |
| `count` | `m_validThreadNums++` under `mtx` |
| `loop` | test of `m_tpState` |
| `take` | look at the queue under `mtx` (`TakeTask`, `FindNoTask`) |
| `got`, `busy` | task in hand; `onTaskProcessor` running |
| `ready` | `*state = 1` and the choice of what comes next |
| `check` | `needReleaseTaskThread` under `mtx` |
| `wait`, `waiting` | about to enter, and inside, `cond.wait_for` |
| `exit`, `leave`, `dead` | `*state = 3`; `m_validThreadNums--` under `mtx`; ended |

`cpc["main"]` and `cpc["recv"]` do the same for the two threads that call the
pool: the one that builds and destroys it, and the receive thread, the only
caller of `addTask`. A section under `mtx` that touches only what `mtx` protects
is one step that needs `mtx` free. `addTask`, `initTaskPool`, `releaseTaskPool`
and `delInstance` hold `mtx` over several steps, because `m_state` changes under
them: the scan of `addTask` reads one thread per step, the wait in
`createNewThread` and every join are steps of their own.

Abstracted: the work of `onTaskProcessor` (it returns), times (a wait may end at
any moment, which also covers spurious wake-ups; the second that
`createNewThread` waits is the constant `SlowStart`), and 2^16 (`ShortMod`).
`getInstance` after `delInstance` is left out, and so is the branch of
`createNewThread` for an old thread object, which no caller takes.

### TaskController

The bytes of each connection and the ends of its requests are constants; the
assumption `StreamAssumption` says that each request begins with its own length,
as `makeAPIRequest` writes it. `Recv` returns any next piece of a stream, of any
size up to the buffer, from any open connection. `makeNewTask` is tail
recursive: each call is one step (`WholeRequest`, `FirstPart`, `AppendPart`,
`LastPart`), and `chunk` holds its arguments. Four bytes of length are read even
if the chunk has fewer: the missing ones are 0, or anything beyond the end of
the receive buffer. Sums of lengths are taken modulo `UintMod`. A byte has
`Base` values, an unsigned int four bytes. `SplitHeader` and `MidClose` say
whether a chunk may end inside a length field, and whether a client may go away
in the middle of a request. Every branch but `AppendPart` allocates. `new` throws
rather than return the NULL that the code tests for, and nobody catches the
exception: `BadAlloc` ends the process (`terminated`).

### SocketServer

`main` is where `main()` is: `socket`, `bind`, `listen`, then `sleep`; every error
leads to `delInstance`, the destructor of the controller. `closeSocket`, which no
code calls, is an action as well (`join`, `closed`). `thread[t]` is one of the three
threads of `socketBase`: the events of its last `epoll_wait` it has still to look
at, and the descriptor and data it has in hand. An event is handled in the steps
between which other threads can interfere: `Erase` and `CloseFd`, `PopFront` (under
`m_wtmtx`) and `SendNow` (after it), `Recv` and one `AddTask` for each request.
`job[k]` is the task of the `k`-th `addTask`, with the number of its descriptor.

The kernel is modelled as far as the code depends on it: `accept` gives the lowest
free descriptor; epoll is level triggered; a Unix socket reports `EPOLLHUP` when the
other end is closed, a TCP socket only after a reset; `close` of an epoll descriptor
does not wake a thread inside `epoll_wait` (`inside`); when the process is stopped and
continued, a thread's `epoll_wait` returns -1 with `EINTR`, in the sleep as well as
during the join, and the thread's loop ends (`interrupted`); `::send` to a client that
is there may fail when the kernel has no memory, and the response is then gone
(`lost`), but it takes no part of one: a socket that is writable has room for the
1044 bytes of a response; an IPv6 socket rejects the 16-byte address it is given. A request is its number and kind: a call of an API, an unknown command
(answered with no byte), or one too short to parse (not answered).

`Patient` says whether clients stay until their calls are answered, as this
repository's client does unless it is killed.

### Protocol, Client

A byte has `Base` values, an unsigned int four bytes, lowest first. A `make`
operator returns the string and how many bytes the copies write behind its end,
which happens when the 32-bit total wraps.

In `Client`, `pc[t]` names the next call of thread `t` in `createClient` and
`doConnect`. `++m_msgId` is a load, a store and the read by `memcpy`, since nothing
protects it. `getInstance` holds `m_mutex` over its test and the `new`. `Faults`
says which failures happen: a call is refused, `send` takes only a part (which the
code takes for success, while the server waits for the rest), the server ends the
stream, `recv` fails. `recv` returns any piece of what the server answers; a failing one is -1
added to a `size_t`. An uncaught exception (`append` with length -1) ends the
process. The stretch that `parseResponse` may read behind a short response is
`junk`: zeros or the highest byte.

### HexChar, Logging, Codec

`HexToChar` is a fold over its loop that also records which positions it reads.
`Logging` has the macros of the bundled glog headers that keep counters. `Codec` has
no behaviour: its states are inputs.

## 3. Runs

| Run | Result | Shows |
|---|---|---|
| `pool_safety` | pass | `QueueInOrder`, `ExactlyOnce`, `CountIsExact`, the pool implements `TaskQueue`, slow threads and a task without worker included; a shutdown returns only when all threads ended, and once it waits for a running thread it waits for ever |
| `pool_live` | pass | `ThreadsWithinMax`; `addTask` returns; a queued task is taken unless all threads have left; surplus threads leave |
| `pool_fixed` | pass | with `minNum = maxNum` every task is processed, and the pool never deadlocks |
| `framing` | pass | the tasks are the requests; copies stay in bounds; `onRecv` returns unless memory is out |
| `server` | pass | an answer reaches the client that asked, and does arrive, with four exceptions that `AnswerArrives` names; no request is answered twice, nor before it was received; descriptors of Unix clients that left are closed, those of TCP clients are not; `closeSocket` returns, or hangs with no connection open on a thread that only a signal wakes |
| `client` | pass | a thread accepts only the whole answer to its own request; ids stay in range though they may repeat; one protocol object; the socket is closed after a send; the process is ended only by a `recv` that fails within an answer; otherwise main returns, unless a request was sent in part |
| `codec` | pass | messages and hex texts can be read back; where the 32-bit size wraps; what `HexToChar` does to small letters; which executions the counting macros log |
| `pool_stranded` | violation | with `minNum < maxNum` a task can stay in the queue of a pool without threads |
| `framing_split` | violation | a chunk that ends inside a length field shifts the framing |
| `framing_close` | violation | half a request of a client that left is completed with bytes of the next client on its descriptor |
| `server_reuse` | violation | the answer to a client that left is sent to the next client on its descriptor |
| `client_cut` | violation | the client accepts part of an answer, and copies data from behind it |

`PROJECT.json` quotes, for each violation, the line of the repository that says
otherwise. Three more observations need no run of their own. With `SlowStart = TRUE`
in `PoolLive.cfg` the pool exceeds `m_maxNum` (an uncounted thread with `m_state` 0 is
neither idle nor counted). `JoinUnderLockNeverEnds` means that the server does
not end when `bind` or `listen` fails. And the bundled glog headers put a severity
`DETAIL` between `WARNING` and `ERROR` (`log_severity.h:62`) without adjusting the strip
levels: "Log messages below the GOOGLE_STRIP_LOG level will be compiled away"
(`logging.h:391`), but `ERROR`, now 3, is already compiled away at level 3, and `FATAL`,
now 4, at level 4. No file of the program uses these macros.

*Bounds.* The races of the pool need two threads that decide together, a third
that is being created, and one task more than there are threads: two or three
threads at a time and three or four tasks are enough for all of them, and the
mutants show that each property can fail within the bounds. `MaxThreads` is at
least `MinNum + MaxTasks`, so that the bound on created threads never blocks
`addTask`. `ShortMod` is above `MaxThreads`, as 2^16 is above any real number of
threads, but small enough for `ifreeTime` to wrap. The streams have requests of
4, 5 and 7 bytes and a buffer of 8, so that a chunk holds two requests, or the
end of one and the start of the next, and a request arrives in up to four
pieces; three connections on two descriptors reuse one. The server has two
clients, which is what it takes to give an answer to the wrong one, and one of them
sends a request that does not parse before its call of an API; in `server_reuse` one
sends an unknown command. The client has two threads,
which is what it takes to lose an increment, a request of 17 bytes and an answer
of 22 in pieces of up to 8. `Codec` takes sizes around the point where 32 bits wrap
(1296 with six values to a byte), and texts of up to four digits from both ends of
each range. Deadlock is checked in `pool_fixed`. The other runs stop on purpose:
the bounded calls are used up and all threads may have left, the shutdown hangs,
all streams are read, or the program ends.

*Fairness.* Weak fairness of each thread's body, of the first `initTaskPool` and
of every call in progress: the operating system runs every thread, timers expire
and handlers return. No fairness for `addTask`, shutdown calls, `Recv`, `Accept`
or `Close`: nobody has to call them. A mutex is taken in a step that needs it
free, so weak fairness does not promise that a thread wins a contended mutex; no
property relies on it where another thread may keep taking it for ever, since
calls are bounded. In `SocketServer`, weak fairness of each of the three threads, of
a task that a worker has begun, and of `closeSocket` once called; no client has to send
or leave, and main need not close the socket. Nothing promises that a worker begins
a task: the controller's pool is `initTaskPool(8, 2)`, and `pool_stranded` shows that
such a pool can lose all its threads. So `AnswerArrives` is stated for a call whose
task does not stay in the queue for ever, and it names what else can prevent an
answer: a closed server, an interrupted send or receive thread, a failed `::send`.
`AnswerArrives`, `GoneIsClosed` and `CloseReturns` say "again and again, if it has begun
then it is done" (`[]<>`): a call that was sent stays sent and a `closeSocket` stays
called, so this is the same as leads-to. In `Client`, weak fairness of the program with a server that answers; no fault has to
happen.

## 4. Proofs

All theorems are about `Safe`, the specification without fairness (`Spec` in `Codec`,
which has none). Those of the pool
assume `PoolAssumption`: sizes are natural numbers, `MinNum <= MaxNum`, and an unsigned
short can count the threads ever created. Those of the client assume
`ClientAssumption` and `BaseAssumption`: among them, an unsigned int can count the
threads.

* `TypeCorrect`, from the inductive invariant `Core`: `TypeOK` alone is not
  inductive. `LockInv` ties the holder of `mtx` to where the callers are, and
  says that a caller that creates threads has one left to create. `HeldInv` ties a
  thread's task to its place in `threadfun`, and says that the threads that exist
  are the first `created` ones.
* `QueueCorrect`: adds `QueueInv`, the queue's content as positions.
* `OnceCorrect`: adds `OnceInv`. The task taken is number `taken + 1`, which nobody
  can hold yet, since every held number is at most `taken`.
* `CountCorrect`: the counter equals the cardinality of a set of threads; it does
  not wrap because the set is part of `1..MaxThreads`. `BootInv` is needed because
  `initTaskPool` resets the counter.
* `MaxCorrect`, for `~SlowStart`: the counter misses threads that have not counted
  themselves in. `StartInv` says that such a thread already shows `m_state` 1;
  `ScanInv` that the scan of `addTask` has passed none of them; `ListInv` that every
  thread is in the list. So when the scan ends without an idle thread the counter
  is the number of all threads, and it is below the maximum.
* `ShutdownCorrect`: from `ListInv`, a joined list means that no thread is left.
* `JoinNeverEnds`: a thread ends only with `mtx` free, and the join holds it.
* `PoolIsTaskQueue`: every step of the pool is a step of `TaskQueue` or leaves it
  alone; `Close` needs `ListInv`, to know that no task is in hand.

* `OneObject`: `ObjectInv` says that a thread about to make the object holds the mutex
  and that none exists yet, so at most one is ever made.
* `IdsCorrect`: `IdInv` bounds the counter, the values loaded from it and the ids
  given by the number of threads that have stored (`Stored`); since that is below
  2^32 no increment wraps, and the counter is at least 1 once a thread has stored,
  so no id is 0.
* `SentCloses`: `SentInv` says where in `doConnect` a reply can exist, which is
  only behind the send, where every path closes the socket.

*The client's answers* (`ClientAnswerProofs`, from the lemmas of `ProtocolProofs`).

* `TypeCorrect`: `TypeOK` plus `RespOK`, which ties what a thread has received to the
  length it read from the first piece.
* `ThrowsCorrect`: the announced length is never above the true one (`AckBound`), even
  when the first piece is shorter than the length field, since missing bytes are
  read as 0. So a thread that has all it was told of stops receiving, and a `recv`
  that fails fails within an answer.
* `AnswersCorrect`, for `~SplitHeader`: `AnswerOK` says that the reply of a thread is the
  answer to its own request, and that what it has received is the beginning of
  that reply. Without the condition the statement is false (`client_cut`).

*The framing* (`TaskControllerProofs`), for `~SplitHeader /\ ~MidClose` and from
`StreamAssumption`; the runs `framing_split` and `framing_close` show that neither
condition can be left out. The inductive invariant is `Inv`. Its heart, `PartInv`,
says that `m_recvList` holds for each descriptor exactly what was received behind the
last task (`Part`), with the length of the request it belongs to; `ChunkInv` says that
`chunk` is the rest of what was received; `EdgeInv` that a cut is never inside a
length; `FdInv` and `DoneInv` tie descriptors to connections and tasks to requests.
Each of the four branches of `makeNewTask` then does one of two things: complete the
request at hand or keep a longer part of it (`Complete`, `Keep`).

* `FramingCorrect`: the tasks are the requests, in order and complete.
* `CopiesCorrect`: every sum of lengths is at most the length of a request, which an
  unsigned int holds, so no sum wraps and no copy leaves its buffer.

*The messages* (`CodecProofs`). `CodecAssumption` says that ids and error codes are
unsigned ints. `ProtocolProofs` shows once that four bytes written and read back are
the number (`UintBytes`), that the fields of a joined header are where they were put
(`HeaderFields`), and what each `make` operator returns; the three theorems follow for
any id, command and size.

*The server* (`SocketServerProofs`), from `ServerAssumption`, for any set of
descriptors, any finite set of clients and whatever they send.

* `TypeCorrect`: `TypeInv` adds that a busy thread has a descriptor and something to
  do, that nothing is received before it was sent, and that tasks start in the
  order of their numbers.
* `OnlySignal`: with no descriptor open nothing but a signal wakes a thread inside
  `epoll_wait`, and no step accepts a connection once main has left its sleep.
* `AnswersOnce`, for all clients, those that leave early too: `FlowInv` follows a
  request on its way, in the hand of the receive thread, in the pool, on a list, in
  the hand of the send thread, with a client. It is in one place only and there
  once, and with one client only, although a list may be erased, a worker may fill
  it again and the descriptor may change hands in between. The run has patient
  clients, so here the theorem says more than the run: what `server_reuse` shows is
  an answer that goes astray, never one that is sent twice.
* `ResponsesCorrect`, for `Patient`: the pool, the lists and the send thread know a
  descriptor number, not a connection. `RouteInv`: an API call on its way is on the
  descriptor of the connection it came from, so that the client it is sent to is the
  one that made it (`OwnInv`). That must survive `CloseFd`. A descriptor is closed only when its client has left
  (`ListenInv`); a client that has left an accepted connection was served (`GoneInv`);
  who was served has as many answers as it made calls, all its own and none twice,
  so by counting it has all of them (`ServedHas`); so no call of it is on its way.
  Without `Patient` the statement is false (`server_reuse`).
* `TcpLeaks`, for `Patient`: the same invariant shows that the connection of a served
  client is never reset, and a TCP socket reports nothing else to the listen thread.
  An impatient client's descriptor can be closed by a reset and used again.

Each inductive invariant was model-checked on the instances of the runs before it
was proved.

Only model-checked:

* everything about liveness: the prover does not do fairness;
* `HexRoundTrip`, `HexToCharExact` and `LogsEveryN`: they say what a fold computes for
  every input, which needs induction over data.

## 5. Not modelled, and the plan

All safety properties of the runs that the prover can reach are theorems. Open is
what is left of the framing when a client goes in the middle of a request and its
descriptor is not used again: no property states it yet.

Left out for good:

* memory that is never freed (`taskData`, ended `wgThread` objects): no behaviour
  depends on it;
* `getInstance` after `delInstance` of the pool, `delInstance` of the protocol, and the
  branch of `createNewThread` for an old thread object: no code gets there;
* a `::send` of the server that takes a part of a response, and more than 1024 events
  in one `epoll_wait`: the code's responses have 1044 bytes, for which a writable
  socket has room, and events that are left over are reported again;
* the text of the log, `SECLOG`, the rest of the glog headers, which the program does not
  use, and glog itself, a compiled library.
