# Verification of GakkiNet

GakkiNet is a small C++ network library in the style of muduo: one event loop
per thread, non-owning registrations of descriptors, connections owned by
shared pointers, and functors handed from thread to thread. This directory holds
TLA+ models of its core, the TLC configurations that check them, and proofs of
the main results that TLAPS checks. All paths below are relative to `src/`.

To run: `tlc -config X.cfg M.tla` for a run of `PROJECT.json`, `tlapm M.tla` for
a module of proofs.

## 1. The system

| Component | State | Operations | Talks to |
|---|---|---|---|
| **EventLoop** (`EventLoop.cpp`, `Mutex.h`) | `functions` under `mutex`, `callingFunctions`, `threadId`, the eventfd of `wakeup` | `run`, `runInLoop`, `addFunInLoop`, `runAllFunctionInLoop`, `wakeup`, `handleRead` | every thread that hands it a functor; owns an EventCtrl and a TimerQueue |
| **EventCtrl, Event, Epoll** | `eventPool`: descriptor -> `weak_ptr<Event>`; the epoll set with a mask per descriptor | `addEvent`, `modifyEvent`, `deleteEvent`, `waitAndRunHandle`, `Event::handle` | called by the loop; calls the handlers bound to an Event |
| **TcpServer, TcpAccept** | `connections_`: "ip:port" -> `shared_ptr<TcpConnect>` | `newConnected`, `connectCloseEvent`, `removeConnectInLoop` | the main loop runs them; hands functors to the io loops |
| **TcpConnect** | `state`, its Socket, its Event, `readBuf`, `writeBuf` | `connectedHandle`, `readEvent`, `writeEvent`, `closeEvent`, `removedHandle`, `writeData`, `shutdownWrite` | called by its io loop; its close callback leads to TcpServer |
| **Buffer** | `readIndex_`, `writeIndex_`, `buffer_` | `readFromIO`, `append`, `readAsString`, `clearReadIndex`, `retrieveUntil`, `swap`, ... | owned by a TcpConnect, not shared |
| **EventLoopThread(Pool), Thread, Condition** | the loop a thread publishes, `next_` | `startLoop`, `threadFunc`, `getNextLoop` | TcpServer |
| **Timer, TimerQueue** | ordered timers, a timerfd | `addTimer`, `timerHandle`, `resetTimerfd` | EventLoop |
| **SudokuSolver** (`suduku.cpp`) | linked columns and nodes | `cover`, `uncover`, `solve` | SudokuServer |
| **SudokuServer** (`SudokuServer.cpp`) and the echo program (`test_tcp_server.cpp`) | none of their own | `OnMessage`: what a read returned is a request, or is written back | TcpConnect, SudokuSolver |
| **SocketAddr** (`SocketOperation.cpp`) | an address | `toString`, `toAddrIpv4`, the byte orders | TcpServer, whose map has the text as its key |
| Socket, SocketOperation | a descriptor | system calls | all of the above |
| Logging, AtomicInt, NoCopyAble, test programs | - | - | - |

What interacts how: `TcpServer::newConnected` runs on the main loop's thread and
gives the connection to an io loop chosen round robin. From then on the io loop
reads it; closing takes three hops, io loop -> main loop
(`removeConnectInLoop`) -> io loop (`removedHandle`), each a functor that
carries a `shared_ptr`. The descriptor is freed when the last of those pointers
goes, on whichever thread that happens. A loop's `eventPool` has only weak
pointers, and the epoll set only numbers.

The behaviours that are hard to get right, and hard to test:

- functors pushed by several threads while the loop swaps the queue;
- the window between the check of the queue and the poll, with a wakeup
  descriptor that is supposed to close it;
- a connection registered with its io loop by another thread, before its
  handlers are set;
- a descriptor number, or a peer's address, used again while something still
  refers to its former owner;
- `Event::handle` calling several handlers of an object that one of them may
  have destroyed;
- level-triggered end of input reported again until the removal has gone round;
- writes the kernel takes in part, interrupted or failing, direct or from
  `writeBuf`, on sockets that block;
- failed system calls: `readv`, `epoll_wait`, `accept` without a descriptor left;
- a request that TCP splits or joins with the next one, for programs that take
  what one read returns for one request.

What makes each part correct: a loop runs every functor once, in the order it
was handed over, and in the end; the pool, the epoll set and `connections_`
agree on which connections exist; no handler runs on a destroyed connection; an
open connection is served and one whose peer has gone is destroyed; a buffer
gives back the bytes it was given; a peer gets the bytes written to it in order
and without a gap; a client that asks gets its answer and no other; two peers never
have the same name. `PROJECT.json` lists the hazards, each at its
line, with the property that covers it or why none does yet.

## 2. The modules

| Module | What it is | Runs | Proofs |
|---|---|---|---|
| `Mailbox` | what `runInLoop` promises, without threads or locks | refined by EventLoop | |
| `EventLoop` | one loop, its mutex, polling, registration, callers on other threads | `loop`, `loop_wakeup` | `EventLoopProofs` |
| `TcpServer` | the loops of a server, accepting, serving, removing connections | `server_pool`, `server_reset`, `server_reuse` | `TcpServerProofs` |
| `Address` | addresses, their bytes, their text and its parsing; `TcpServer` names its connections with it | in the server runs | `TcpServerProofs` |
| `ByteQueue` | what a Buffer promises: a queue of bytes | refined by Buffer | |
| `Buffer` | the methods of Buffer over indexes and a vector | `buffer`, `buffer_error` | `BufferProofs` |
| `Pipe` | what `TcpConnect::write` promises: bytes in order, none missing in between | refined by Stream | |
| `Stream` | the write path of the connections of one loop | `stream` | `StreamProofs` |
| `Startup` | `TcpServer::start`, the threads of the pool, the round robin | `startup` | `StartupProofs` |
| `RequestReply` | what a program promises its clients: the answers, whole, once, in order | refined by Service | |
| `Service` | the programs, the receiving end of their connections, clients and network | `service` | `ServiceProofs` |
| `Search` | a depth-first search for an exact cover, with sets for the lists | refined by Solver | `SearchProofs` |
| `Solver` | the sudoku solver on dancing links, loop turn by loop turn | `solver` | `SolverProofs` |
| `TimerQueue` | timers, their timerfd and the widths of the times | `timers` | |
| `MCEventLoop`, `MCTcpServer`, `MCBuffer`, `MCStream`, `MCStartup`, `MCService`, `MCSolver`, `MCTimerQueue` | the instances TLC checks; the constants are in the .cfg files, the setups of the server in `MCTcpServer`, the boards of the solver in `MCSolver` | | |

How they are stacked: TcpServer takes the queues between the loops for what
`EventLoop => Mailbox` shows; Stream takes `writeBuf` for what `Buffer => ByteQueue`
shows; Service takes the way back to a client for what `Stream => Pipe` shows.

Operators named `X_Something` right before an operator `X` are mutants: what a
plausible bug would make of `X`. No specification uses them; `PROJECT.json` says
which property each one breaks.

### EventLoop

One thread runs the loop (`LoopThread`); the threads of `Callers` call
`runInLoop`. `loopPc` follows `run` -> `waitAndRunHandle` ->
`runAllFunctionInLoop`; `callerPc` follows `addFunInLoop`: `lock`, `push`,
`wake`. The model's `push_back` reads the vector when the mutex is taken (`seen`)
and writes it when the mutex is released, and the loop's swap does the same
between `LockFunctions` and `Swap`. So mutual exclusion is not built into the
grain of the actions: without the mutex functors get lost, and the mutant
`Lock_NoMutex` shows it.

The loop may be constructed on any thread (`threadId \in Threads` initially) and
belongs to the thread that calls `run`, as in the code; before that, its
constructor's thread runs functors inline. Handlers and functors are user code,
which may call `runInLoop`, `addEvent` and `removeEvent` on the loop
(`InUserCode`). `eventPool`, `live`, `watched` keep the map's entries, those
whose Event is alive, and what epoll watches; the three differ after an Event
was destroyed without `removeEvent` (`CloseFd`). The wakeup event is
constructed as in `EventLoop::EventLoop`: `enableReading` before any `addEvent`,
which `modifyEvent(int)` ignores.

`handed` and `ran` are history variables.

### TcpServer

Loop 0 is the main loop, `1 .. MaxThreads` can be io loops. A `setup`, chosen in the
initial state, says how many there are (with none the main loop serves the
connections), how many connections and descriptors there may be, whether peers may
reset, whether they may come back from the same port at once, whether they send
(`sends`), whether the callbacks may shut the sending side down (`shuts`), and whether
what they write may be cut short (`cuts`).

`newConnected` is cut at the points another thread can observe: the insertion in the
io loop's map (`Accept`, then `Inserted`), the handlers, the entry in `connections_`
with the close callback, the hand-off, the return. A loop's iteration is `Poll`, a
`Dispatch` per event, a `CallHandler` per handler that `Event::handle` calls,
`BeginFunctions`, a `RunFunctor` per functor and `EndFunctions`, which destroys the
batch and the shared pointers in it. `acceptHandle` may find no descriptor or a peer
that has given up (`AcceptFails`).

The main thread's `addEvent` inserts in the `std::map` of an io loop without a lock.
While it does (`InsertingFor(l)`), any use of that map by its own loop, a lookup or an
erasure (`UsesPool(l)`), is undefined behaviour: it may go well, or `up` becomes
false, after which the model claims nothing. The main loop's own map has no such race.

A connection is alive while a shared pointer to it is (`Alive`): in `connections_`, in
a functor of a queue or of a batch, or as `newConnected`'s local. Its descriptor is
free when it is not alive, and `accept` takes the lowest free one, so descriptor
numbers do come back in the model. The queues between the loops are taken to be what
EventLoop is shown to implement: each functor once, in order. `peer` is a connection's
address and `Name` its text as `Address` computes it. `link` is the kernel's side of a
socket: data to read (`data`), the peer's FIN (`eof`), its RST (`rst`, or `rstData`
before what it sent was read), and an RST whose error was read (`rstRead`). A peer is
`Gone` when nothing can be read any more but that.

`watch` is what a connection asks of epoll. A callback that writes more than the socket
takes leaves it asking for EPOLLOUT as well (`AfterCallback`; when that happens and what
it does with the bytes is `Stream`), and `writeEvent` ends that interest when `writeBuf`
is empty (`WriteEvent`). `Report` is what epoll says under that mask, and `HandlerCalls`
the four branches of `Event::handle` in order: on a FIN a connection that waits for
EPOLLOUT gets `readEvent`, which closes it, and then `writeEvent`. With an io loop the
removal is three functors away and the second call finds its connection; with one loop
`readEvent` has destroyed it (`server_reset`).

Left out: the bytes (sockets block, a read handler without input waits; receiving is
Service's and writing Stream's), a write that holds its loop up (Stream), and the
write-complete callback.
`Buffer::readFromIO` after an RST may end the process (see Buffer), so `up` becomes
either value there.

### Address

A `sockaddr_in` is the bytes of `s_addr` and `sin_port` as they lie in memory.
`ToString` goes through the shifts of `SocketOperation.cpp:152`; `FromText` has what
`stringToInt` accepts (`>>` into a `uint16_t` takes a minus sign and wraps), the shifts
of `toAddrIpv4`, the word it starts from without initialising it (`garbage`) and the
missing `htonl`. A text is the sequence of its numbers: separators, digits and leading
zeros are left out.

### Buffer

A buffer is a record of `readIndex_`, `writeIndex_` and the vector's cells, a
method is an operator on such records, and an action applies it to one of the
`Buffers`. Cells outside of the readable range keep what they held. `moved`
records which bytes the last call put in or took out, so that `ByteQueue` can
say not only what is in the queue but what came out of it. `readv` filling the
room first and `extrabuf` next is `ReadIntoBuffer`. In `ReadFails`, integers keep
their width (`Narrow` for `uint32_t`, `Wide` for `size_t`, scaled down for TLC).

### Stream

Everything in it runs on the loop's thread, so the actions of different
connections meet only where the loop waits: `accept` returns blocking sockets,
and a write that does not fit keeps the loop in the system call (`call`) until
the rest went in (`CallGoesOn`), a signal ends it (`Interrupted`, with what was
taken so far or EINTR) or the connection is lost (`CallFails`). `blocking` is
chosen in the initial state, so that the code is checked for non-blocking sockets
too, which its test of EWOULDBLOCK (`TcpConnect.cpp:182`) is made for. `WriteDirect` and
`WriteBuffered` are the two ways through `writeData`; `AppendRest` is its end,
`ClearWritten` the end of `writeEvent`. `sendq` is what the kernel holds of a
connection's bytes, on either side of the network, `sock` whether it will take
more.

Bytes are numbers in the order of the writes, so two bytes are never confused.
`writeBuf` is a plain sequence: that a Buffer behaves as one is what
`ImplementsByteQueue` says. `PipeSpec` maps the bytes on their way to
`sendq \o writeBuf`, or to `sendq` followed by the rest of the call under way;
after a shutdown, a reset or the removal what is not in `sendq` no longer counts,
which is how `Pipe!Cut` loses an end.

Left out: writes after the removal, from a pointer the user has kept; several
threads writing, which `writeData` does not allow for; the write-complete
callback, which TcpServer never sets.

### Startup

The main thread (`main`) goes through `TcpServer::start`, `EventLoopThreadPool::start`
and, for each thread, `EventLoopThread::startLoop`: `lock`, `check` of `loop_`,
`sleep` and `asleep` in `Condition::wait`, `lock` again. Thread `t` (`io[t]`)
goes through `threadFunc`: the loop on its stack and the callback (`Prepare`),
then `LockPublish`, `Publish`, `Notify`, `UnlockAndRun`. Between `check` and
`asleep` there are two steps, so that a notification could get lost there if the
mutex did not forbid it. A wait may end for nothing (`SpuriousWakeup`), and
`pthread_create` may fail, which `Thread::start` only logs (`failed`).
`GetNextLoop` follows once `start` has returned. `inits` and `given` are history
variables.

Left out: the destructor, whose `join` waits for a loop that never ends;
`waitForSeconds` and `notifyAll`, which nothing calls; `setThreadNum` is the choice of
`threadNum` in the initial state.

### Service

`program` is the callback, `SudokuServer::OnMessage` or `TestServer::OnMessage`. A
client's bytes are numbers in the order it sends them (`sent`); those up to `arrived`
have reached the socket and those up to `taken` were read. A read takes all there is
or at least `ReadMax`, what the first readv of a buffer holds (`ReadSizes`); a buffer
that has grown takes more. `readEvent` passes the content of `readBuf` to the callback
if `newConnected` has set it (`MessageCallbackSet`); the phases of a connection are
those of `TcpServer` that matter for that order. `kind` says of each client whether it
is patient, that is waits for the answer before it asks again or shuts its side, and
whether the network leaves its requests whole. The assertion `SudokuServer.cpp:59`
ends the process (`Abort`). What is written goes through `Out`, an instance of `Pipe`.

`Solution` is a function of the request and nothing is known of it but its length:
what the solver computes is Solver's. All answers have one length here, `ReplyLen`,
though the program's "NoSolution" is shorter than a board: the server takes the length
from the answer itself (`SudokuServer.cpp:64`), and a client of the model knows where an
answer ends.

Left out: resets (TcpServer and Stream have them); output that stalls the loop
(`stream` shows that a peer that does not read holds the others up); the other
callbacks of the programs, which print; `main` and the constructors, which fix the
number of threads and the port.

### Solver

The fields of the nodes in `nodes_` are functions of a node's number (`left`, `right`, `up`,
`down`, `col`, `name`, `size`); node 1 is `root_`, `last` the last one handed out and `columns`
the array of columns by name. A step is one turn of a loop, or what lies between two loops:
a column or a node of the constructor (`AppendCell`, `AppendConstraint`, `AppendNode`), a
comparison of `get_min_column`, a node that `cover` unlinks (`Unlink`) or `uncover` puts back
(`Relink`). `i`, `j`, `k` are the variables of these loops and `pc` says which one runs. The
calls of `solve` under way are in `cols`, `rows` and `stack`: their local variables `col` and
`row`, and the `stack_` of the solver. The side of a box is a constant, 3 in the code.

`AssertionsHold` is the constructor's four assertions: a column is new, a node has its
column, and `nodes_` is large enough. `ListsMatch` says what the linked lists must be, from nothing but the
options on the stack and the order in which the nodes were made; `AnswerCorrect`
compares the result with all ways to fill the board. `SearchSpec` maps the stack to
`Search`: the guesses are the options on it as sets of constraints, and what is left
to try at a level is what is below the row in hand in the lists.

### TimerQueue

The two multimaps are sequences ordered by key, the timerfd is the time at which
it becomes due (`armed`). The times keep their widths, scaled down: `Int32` is the
`int` in `getTimeOutMSecond`, so that today's times wrap in the model too.
`TimerHandle` is there as the code has it, with its guard: the loop must watch the
timerfd and have a function for it, which never becomes true.

## 3. The runs

| Run | Instance | What it shows |
|---|---|---|
| `loop` | 2 callers, 3 functors, a socket, `ActiveEventLength` 1 | `ExactlyOnce`: no functor is lost or doubled. `MailboxSpec`: EventLoop refines Mailbox. `EveryFunctorRuns`: each functor handed over runs. |
| `loop_wakeup` | the same | **Violated**: a poll can last its whole timeout while a wakeup waits, since the eventfd is not in epoll (`EventLoop.cpp:54`). |
| `server_pool` | seven setups: one loop with 3 connections whose peers send; 2 io loops; 1 io loop with 3 connections, with 3 connections on 1 descriptor, with resets, with writes cut short, with one connection and both of these; 2 peers | `HandlersRunOnLiveConnections`, `RegistrationsAgree`, `OpenConnectionsServed`, `ConnectedBeforeRemoved`, `EventsReachTheirConnection`, `Reclaimed` all hold as long as a peer does not come back at once from a port it has just reset. |
| `server_reset` | one loop, 2 connections; in one setup peers reset, in the other writes are cut short | **Violated**, in either setup: `Event::handle` calls `readEvent` on a TcpConnect its `errorEvent` destroyed (`Event.cpp:80-89`), or `writeEvent` on one its `readEvent` destroyed (`Event.cpp:85-94`). TLC prints one of them; with one setup left in `MCAloneSetup` it prints that one. |
| `server_reuse` | 1 io loop, one peer that resets and reconnects from the same port | **Violated**: the new connection is not entered in `connections_` (`TcpServer.cpp:97`). |
| `buffer` | 2 buffers, 2 byte values, vectors of 1 to 3 cells, `extrabuf` of 2 | the indexes stay in order and return to 0 when a buffer empties; Buffer refines ByteQueue |
| `buffer_error` | the same, `readv` may fail | **Violated**: a failed `readv` is not noticed and ends the process or costs a byte (`Buffer.cpp:22`). |
| `stream` | 2 connections, sockets that hold 1 byte, up to 3 bytes written to each | `WriteInterest`: EPOLLOUT is asked for exactly while bytes wait. `PipeSpec`: Stream refines Pipe. `Delivered`: what waits for a peer that is served reaches it. |
| `startup` | up to 3 threads, 2 calls of `start`, 3 connections for a loop | `ReadyBeforeUse`: a loop gets connections only after its thread has published it and the callback has run, once. `Balanced`: no loop is two connections ahead of another. `StartReturns`: `start` returns if all threads were created. |
| `solver` | 10 boards of 4 by 4 | `AssertionsHold`: no board makes an assertion of the constructor fail. `ListsMatch`: after any number of steps forward and back the lists are what the options on the stack leave. `AnswerCorrect`: the answer is a solution, and NoSolution means there is none. `SearchSpec`: Solver refines Search. `Terminates`. |
| `service` | 2 clients of every kind, 2 requests each, both programs | `EchoConserves`: no byte of an echo is lost, doubled or out of order. `Survives`: only a client that does not wait or whose requests are split ends the sudoku program. `RequestReplySpec`: whoever waits gets its answers and nothing else. `EveryRequestAnswered`: and gets all of them. |
| `timers` | 2 timers, once or again and again | **Violated**: the timerfd becomes due and is never handled; its event is not registered (`TimerQueue.cpp:12`). |

The bounds and why they are enough:

- `loop`: two callers contend with each other and with the loop; three functors
  let the queue, the batch and a caller hold one each. `ActiveEventLength`, 16 in
  the code, is 1, so that a ready descriptor can be left out of a poll.
- `MaxConns` bounds the connections ever accepted: with two, the second can take the
  first one's descriptor, and with two peers it can also have another name; with
  three on one descriptor every one but the first inherits one, and in one loop a third
  is accepted while the removal of two is under way. The assumption
  `s.fds <= 14` says that all descriptors open at a time fit in one call of `epoll_wait`. Resets
  and writes that are cut short come with two connections and one io loop, and together
  with one connection; `server_reset` shows why neither comes with one loop.
  The seven setups have 945,338 states together.
- `MaxQueue` bounds the functors of the main loop: an io loop polls again only
  while the main loop's queue is shorter. Without it, an io loop reporting the
  same end of input over and over fills the queue without bound. One is enough
  for a second removal of the same connection to be queued.
- `Peers`: two ports of one host, 80 and 20480, whose bytes are each other's in reverse
  order, so that a byte order forgotten once would make two names one.
- `MaxSize` bounds a Buffer's vector and with it every input. Three cells from
  an initial one make an append that fits, one that grows the vector, and a read
  that fills the room and continues in `extrabuf`. `Narrow` = 8 and `Wide` = 64
  keep the relation of the real widths: an index never wraps, and a length of
  `Wide - 1` does.

- `SendBuf` = 1 and `MaxBytes` = 3 make every write of two bytes a short one, let
  a call go on twice, and leave bytes in `writeBuf` when the next write comes. Two
  connections, so that one can hold the loop while the other waits.

- `MaxThreads` = 3: two are enough for the threads of a pool to overlap, three for
  an index of the round robin that is neither the first nor the last. A second
  call of `start` is one after the pool runs. `MaxConns` = 3 lets the index go round
  three times.
- `service`: requests and answers of two bytes, so that each can be cut in the middle;
  `ReadMax` = 3, so that a read can end inside of a second request; two requests, so that
  one can be joined with the next. `ReadMax` is at least `RequestLen`, as in the code
  (81 bytes against 1024 and 65536). Two clients, because what they share is the
  process; 346,872 states.
- `Puzzles`: an empty board, boards whose first guesses are wrong several levels
  deep, boards with one solution and with none, contradictory givens, a full board,
  a digit that is too high. Boards of 4 by 4 have the same four kinds of
  columns as those of 9 by 9. The boards without a solution have at most 7 empty
  cells, because `AnswerCorrect` tries all ways to fill them.
- `timers`: `Start` is past half of `Narrow`, as the time is past 2^31 milliseconds;
  `MaxTime` is far enough for the timerfd to become due.

The server runs, `stream`, `startup`, `service`, `solver` and `timers` switch the deadlock check off: when all `MaxConns`
connections have gone, the process has ended, all bytes are written and read, the
bounds of `startup` are used up, the clients have asked all they may, the solver has answered or the clock is at its
bound, the system stops.

### Fairness

`EventLoop`: the loop's thread is scheduled, its handlers and functors return,
and a poll with nothing ready ends after `PollTimeMs` (`WF_vars(LoopStep)`). A
caller in `addFunInLoop` is scheduled too. The mutex needs strong fairness
(`SF_vars(Lock(c))`): the loop takes it in every iteration, so it is free again
and again but not all the time; a pthread mutex does not let a waiter starve
under a holder that spends its time in `epoll_wait`. A failing `epoll_wait`
(`Interrupted`), input and the calls themselves are not fair: nothing forces
them.

`TcpServer`: each loop's thread is scheduled. Peers are not fair: they may stay
connected for ever. `Reclaimed` starts from a peer that has gone.

`Stream`: a connection that is ready for writing on every poll is dispatched in
the end (`WF_vars(WriteEvent(c))`, epoll is level-triggered); the kernel lets a
call go on that has room and ends one whose connection is lost. Peers in `reads`
keep reading, the others promise nothing. Signals, writes, shutdowns and resets
are not fair. `Delivered` is claimed for a peer that reads, and on blocking
sockets only if all peers of the loop do: one that does not read holds the loop
for ever.

`Startup`: the main thread goes on while it is in `start` (`WF_vars(MainStep)`), and
so does each thread. The mutex needs strong fairness again
(`SF_vars(LockPublish(t))`): a main thread whose waits end for nothing takes it
again and again. Calls, connections and spurious wakeups are not fair.

`Service`: the threads are scheduled and the loop serves each of its connections
(`NewConnected`, `LoopStep`), the network brings what was sent (`Arrive`) and clients
read (`Deliver`), all weakly fair. Nobody has to send or to shut a side.

`Solver` is one thread that runs. `TimerQueue`: the clock goes on, and the loop polls
again and again, which makes the violation one of the code and not of a system
that stopped.

`Buffer` states no liveness.

## 4. What is proved

TLC checks the instances above; the theorems hold for every value of the
constants that satisfies the module's assumption (`LoopAssumption`,
`BufferAssumption`, `StreamAssumption`, `StartupAssumption`, `ServiceAssumption`,
`ServerAssumption`, `SolverAssumption`).

`EventLoopProofs`:

- `TypeCorrect`, `NoFunctorLostOrDoubled`: `TypeOK` and `ExactlyOnce` are
  invariants. `ExactlyOnce` is not inductive: that `Append(seen[c], arg[c])`
  keeps what others pushed depends on the mutex. `IInv` adds `Locking`: a caller
  between lock and unlock holds the mutex and has seen the queue as it is, it
  holds a functor exactly while it has one to push, the loop holds the mutex
  while it swaps, and the batch is empty whenever the loop is not running
  functors (so the swap discards nothing). `TypesStep` shows that types and
  locking maintain each other, `ExactlyOnceStep` that the steps which move a
  functor keep it in one place.
- `ImplementsMailbox`: `Spec => MailboxSpec` with the queue of the mailbox as
  `allfunctors \o functions`. `Push` is `Submit`, an inline run is `RunDirect`,
  `RunNext` is `RunNext`, everything else, the swap included, is a stutter.

`BufferProofs`:

- `IndexesInOrder`: `TypeOK`, which says that the indexes are ordered within the
  vector and that equal indexes are both 0. It is inductive as it stands.
- `ImplementsByteQueue`: `Spec => ByteQueueSpec`, from one lemma per method that
  says what it does to the content (`FillProperties`,
  `EnsureWriteableBytesProperties`, `AppendDataProperties`,
  `ReadIntoBufferProperties`, `ClearReadIndexProperties`). `Spec` has no failing
  `readv`; with one the theorem is false, as `buffer_error` shows. `MaxSize` is
  below the wrap of the 32-bit indexes; beyond 4 GiB nothing is claimed.

`StreamProofs`:

- `StreamTypes`, `WriteInterestExact`: `TypeOK` and `WriteInterest`. Neither is
  inductive: while the loop waits in a write, `writeBuf` still holds what
  `writeEvent` is handing over. `IInv` adds `CallMatchesBuffer` (a waiting
  `writeData` has an empty buffer and no write interest, a waiting `writeEvent`
  the buffer of which `taken` bytes have gone and `rest` has not) and
  `ShutSocket` (a connection that is Disconnecting sends no more).
- `ImplementsPipe`: `Spec => PipeSpec`. `OneConn` says once what a step for one
  connection does to the invariant and to the bytes on their way; each action of
  the write path is reduced to it. A write is `Send`; `WriteEvent` and all steps
  of a call are stutters, since bytes only move from `writeBuf` to the socket;
  `PeerReads` is `Deliver`; the four ways to end a connection are `Cut`.

`StartupProofs`:

- `StartupTypes`, `LoopsReadyBeforeUse`, `LoadBalanced`: `TypeOK`, `ReadyBeforeUse` and
  `Balanced`. `IInv` has `Progress` (how far the main thread has come, in terms of the
  length of the pool), `ThreadsAgree` (a thread's `loop_` and callback are what its
  place in `threadFunc` says), `PoolInOrder` (the loop of thread `i` is at place `i`,
  and the main thread unlocks only when `loop_` is set) and `RoundRobin` (the loops
  before `next_` are one connection ahead). That the last number of rounds exists is a
  quantifier inside of the invariant. The mutex is not needed for these three, only
  for `StartReturns`. `ThreadMoves` says once what a step of a thread does.

`ServiceProofs`:

- `TypeCorrect`, `EchoIsWhole`, `OnlyMisuseEnds`: `TypeOK`, `EchoConserves` and `Survives`,
  for any number of clients and any lengths with `RequestLen <= ReadMax`. None is
  inductive. `IInv` has, for each client, `Ordered` (all it was sent, read or on the way,
  is what it is owed, byte by byte), `EchoLength` (and of an open echo nothing is
  missing) and `OneAtATime`: for a client that waits on a network that splits nothing
  there is a `k` such that `k` requests are taken and answered and at most one more is sent,
  which has arrived whole or not at all. So a read finds exactly one request, and the
  assertion cannot fail for it. That `readBuf` is empty between the events is part of
  `Types`: it rests on the order in which the callbacks and the input are set.
- `ImplementsRequestReply`: `Spec => RequestReplySpec`. `SendRequest` is `Ask`, where
  `AllAnswered` shows that a client that may ask has read all its answers; `Deliver` is
  `Receive`; everything else is a stutter. The lemmas at the front of the module are the
  arithmetic of `\div` and `%` that `SolutionByte` needs.

`SearchProofs`:

- `SearchIsRight`: `Spec => []AnswerRight` for every exact cover problem, finite or not.
  `IInv` has `SafeGuesses` (the guesses are options that fit those before them, and so
  are each level's untried options) and `NoneMissed`: while the search goes on, every
  exact cover is ahead of it, since either it contains all guesses and a choice comes
  next, or it contains the guesses above some level and an untried option of that level.
  So a search that retreats past its first level has missed none. Solver reaches this through
  `SearchSpec` (`AnswerIsRight` below).

`TcpServerProofs`:

- `TypeCorrect`: `TypeOK` for every setup. `Types` adds that `next` stays below the
  number of io loops and that nothing is reported or handled that does not exist.
- `HandlersAreSafe`, `RegistriesAreConsistent`, `OpenConnectionsAreServed`,
  `ConnectedComesFirst`, `EventsAreDelivered`: the five invariants of `server_pool`, for any
  number of io loops, peers and connections accepted one after the other, with at most 14
  descriptors at a time. They assume `SafeSetups`: with io loops no peer comes back from a
  port it has reset before its old connection is gone, and without io loops no peer resets
  and no write is cut short. Without the first, `server_reuse` breaks
  `OpenConnectionsServed`; without either part of the second, `server_reset` breaks
  `HandlersRunOnLiveConnections`. With io loops peers may reset and writes may be cut short,
  at once too. Every setup of `server_pool` is one of `SafeSetups`. None of the five is inductive. With io loops `IInv` is:
  - `Places`: a connection, its entry in a map of descriptors and its functors belong to
    the same io loop, `remove` functors to the main loop, and the entry of `connections_`
    is under its own name;
  - `Phases`: a loop dispatches events or runs functors, never both, and `newConnected` is
    inside an event of the main loop;
  - `Owned`: a registered connection is kept alive by `newConnected`, then by `connections_`,
    then by the functor that will deregister it. This chain is the heart of the argument:
    `removeConnectInLoop` erases the entry only in the step that queues `removedHandle`, so
    nothing registered is ever destroyed;
  - `Distinct`: living connections share no descriptor and no name, which `accept` relies
    on when it takes the lowest free descriptor (`LeastOf`) and `addConnect` when `insert`
    must not find the name taken;
  - `InOrder`: `connectedHandle` is never behind `removedHandle` in a loop's queue, batch or
    across the two, so that a connection is not put back in epoll after its end;
  - `WatchRight`, `Reporting`: epoll agrees with the map of descriptors, and what a loop
    is dispatching or handling is registered with it, and hung up on if `closeEvent` or
    `errorEvent` is to come (`EventRight`, `CallsRight`). So the step that deregisters a connection cannot fall between its report and its handler:
    both run on the loop it belongs to;
  - `OpenStays`: nobody has queued the end of a connection whose peer is still there.
  One lemma per action (`AcceptStep` ... `RunRemoved`) shows that it keeps `IInv`; `Frame`,
  `QueueSets` and `AdvanceAndQueue` say once what a step does to the queues.
  Without io loops `closeEvent` erases and deregisters the connection within its own handler,
  and no functor is ever queued. `LoneInv` says that instead: a connection is registered
  exactly while it is in `connections_`, or before that in the last part of its constructor
  (`LoneOwned`); whatever epoll has reported is registered, readable, and other
  than the connection being handled (`LoneReporting`). It needs that a report calls one
  handler only, which is not so after a reset or while EPOLLOUT is asked for. `LoneRemoves`
  is the step that matters.
- `TextIdentifiesAddress`: equal texts mean equal addresses, so `connections_` never
  confuses two peers by their keys.
- `ParsedAddressIsReversed`: `FromText` turns a.b.c.d:p into the address d.c.b.a with
  port p, whatever the word held before: four shifts push it out. A reader of
  `toAddrIpv4` would expect a.b.c.d; no program here parses an address.

`SolverProofs`:

- `TypeCorrect`, `NoAssertionFails`, `LinksAreRestored`: `TypeOK`, `AssertionsHold` and
  `ListsMatch`, for boards of 1, 16 and 81 cells (`Box \in 1 .. 3`, for the names of the
  columns have three digits) with any integers in their cells, whatever the depth of the
  search and however often it has come back. That needs no induction over the lists: the
  invariant says of each node where it is, and every turn of a loop moves one node.
- While the constructor runs, `IInv` says what it has made so far (`Built`, for a set of
  options, their nodes and the order of both) and that nothing is covered (`Fresh`);
  `Bounds` counts the nodes left for what is still to come, so that `nodes_` cannot run out.
- Then `IInv` is `Solving`, with two ghosts bound by a quantifier: `cov`, the time at which
  each column was covered, and `gone`, the time at which each node was unlinked. `Dancing` is
  the heart of the argument: every node, linked or not, points to its neighbours among those
  that it has `Seen`, which are the ones still there when it went. So the links of
  a node that is out of its list are what they were when it left, and when it is the last
  that has gone, they are its neighbours now: `UnlinkKeeps` and `RelinkKeeps`, the idea of the
  dancing links. What is left to show is that `uncover` goes through the
  nodes in the reverse order of `cover`, over all calls under way.
- `ImplementsSearch`: `Spec => SearchSpec`, step by step. `Translated` says how the lists
  stand for the problem: every item has one column, and every option one node in the column
  of each of its items. By it, the columns still linked are the items left and the rows
  below the header of a column are the options that fit (`Translation`, `OptionsMeetItems`).
  `TakeMinChooses`: the column that was found smallest and is covered is a `Choose`, and its
  rows are what is to try there. `TryRowGuesses`: the row put on `stack_` is a `Guess`, an
  option no call has tried at that level. `UncoveredRetreats`: the last turn of `uncover`
  of a call's own column, with which it returns false, is a `Retreat`.
  `SolvedFinishes`: with no column left under `root_`, every item is met (`NoColumnLeft`), so
  that is a `Finish`. Every other turn of the loops is a stutter (`QuietSearch`): it
  leaves what has been guessed and what is to try alone, although the lists are half
  covered then.
- `AnswerIsRight`: `AnswerCorrect`. When NoSolution comes back of a board of digits, the
  search has ended with `none`, so by `SearchIsRight` no options cover the items
  exactly; but the values of a completed board would (`CompletionCovers`). That they do
  rests on a pigeonhole: a row, column or box in which every value occurs has each of them
  once (`UnitFilled`). A board with another character is turned away before the
  search and has no completion (`NotWithoutDigits`). When a board comes back, the
  options on `stack_` meet every item, and the values they put complete the
  board to a sudoku (`SolvedIsSudoku`). `Answered` is the part of the invariant that
  keeps the answer once it is given.

Only model-checked: the liveness properties (`EveryFunctorRuns`, `Reclaimed`,
`Delivered`, `StartReturns`, `EveryRequestAnswered`, `Terminates`), since TLAPS has no support for fairness
and `ENABLED` here. The violated properties are counterexamples and have nothing to prove.

## 5. What is not modelled, and the plan

What could still be added: the users'
write-complete and close callbacks, which a TcpServer takes and never
calls: nothing in the library depends on them.

Not modelled, and why:

- the destructors with their joins: a loop never ends, so a destructor of a pool never
  returns, and no program reaches one;
- `writeInLoop`, `waitForSeconds`, `notifyAll`, `findCRLF`: nothing calls them;
- several threads writing to one connection: `writeData` has no lock and no caller that
  would need one;
- the functions of timers: no timer ever fires (`timers`);
- Socket and the rest of SocketOperation: wrappers of system calls, whose effects are
  modelled where they are used;
- logging, `AtomicInt` (it counts threads and nothing reads the count), `NoCopyAble`, the
  other test programs, `Event..cpp` (not built) and `ThreadPool.h` (empty).
