# Verification of tp_advanced_cpp_project

TLA+ models of the library's concurrent and stateful parts, checked with TLC on
small instances, and theorems about them proved with TLAPS for all instances.
Paths below are relative to the repository's root (`src/...`, `include/...`).

## 1. Inventory

| Component | State it keeps | Operations | Interacts with |
|---|---|---|---|
| coroutine library (`src/coroutine/coroutine.cpp`) | per thread: `routines`, the queue `finished`, `current` | `create`, `resume`, `yield`, `entry`, `current`, `finished` | called by `http::Worker`; exceptions of a routine are rethrown by `resume` |
| `http::Worker`, `ClientState` (`src/http/Worker.cpp`, `ClientState.cpp`) | `clients`, `running`, the epoll set, per client `keep_alive`, start time, coroutine id | `addClient`, `run`, `stop`, `handleClient`, `serveClient`, `readRequest`, `sendResponse` | the server thread calls `addClient` and `stop`; the kernel's sockets; one coroutine per client |
| `http::Server` (`src/http/Server.cpp`) | `running`, `workers`, `load_balancing`, the listening socket | `run`, `stop`, `acceptClient`, `onRequest` (virtual) | starts and joins one thread per worker |
| HTTP messages (`src/http/HTTP.cpp`) | none | parse a request, format a response | worker, database server |
| file database (`src/file/`) | the mapped file, the index | build the index, look a key up | an `http::Server` whose workers call `onRequest` |
| shared memory (`include/shmem/`, `src/shmem/`) | allocator pointer and semaphore, the map, its semaphore | `allocate`, `deallocate`, `insert_or_assign`, `erase`, `at`, iteration | several processes |
| child processes (`src/process/`) | two pipe ends and a pid per object | start, `writeExact`, `readExact`, `closeStdin`, `join`, `kill`, move, destroy | the child, and children started later, which inherit descriptors |
| callback server (`src/tcp/AsyncServer.cpp`, `AsyncConnection.cpp`) | `connections_`, the epoll set, the events asked for; per connection a descriptor and its events | `run`, `close`, accept, dispatch; `read`, `readToBuffer`, `write`, `close` of a connection | the user's callback, peers |
| blocking tcp (`src/tcp/Connection.cpp`, `Server.cpp`) | a descriptor and addresses | `connect`, `accept`, `readExact`, `writeExact`, `set_timeout`, moves | the threads of `example/tcp` |
| logger (`src/logger/`) | the global logger, a level | log, replace the logger | every thread |
| `http::Fd` | a descriptor | own, move, close | used throughout |

What is hard here, and which properties answer it (the list of hazards in
`PROJECT.json` names the lines):

* *Recycled handles.* Coroutine ids and descriptor numbers are reused while
  somebody still holds the old one. `OrdinatorOK`, `LiveRoutinesKept`,
  `RoutinesOwned`, `ClientsOpen`, `KeepsPromise`; and `ResumesOwnCoroutine`,
  which fails.
* *Lost wake-ups.* Registrations are one-shot and must be renewed in the right
  direction on each path. `AllArmed`, `WakesWhenNeeded`, `InputConsumed`.
* *Time-outs against input and output.* `OneCallAfterTimeout`, `ExpiredClosed`.
* *Stopping.* Two levels of flags, a drain and a join. `StopDrains`,
  `ReturnedClean`, `HandsToServing`, `StopWhenServing`; and `StopReturns`, which
  fails.
* *Boundaries of the index.* `LookupExact`, `MissesOnlyTail`.
* *Processes that share memory* and may be killed or run out of it.
  `BlocksDisjoint`, `ActsAtomically`, `LocksReleased`.
* *Children, pipes and inherited descriptors.* Ends and pids move between objects,
  pids are reused, a later child keeps an earlier one's input open.
  `DescriptorsOwned`, `PidsOwned`, `ChildrenHandled`, `DestructorReturns`,
  `WriteReturns`.
* *Events handled later than reported.* Callbacks close, throw and read while an
  array of events is worked off and numbers are reused. `EventsFindConnections`,
  `OwnersExact`, `ClosedIsReal`, `NoInputLost`, `GoneIsErased`, `PeerUnblocked`.
* *Short transfers and full buffers.* `EchoedExactly`, `EndsOwned`,
  `OrderlyClose`, `RoundTripEnds`.

## 2. Modules

```
Coroutine ---- INSTANCE --> Worker <-- EXTENDS -- Sockets (kernel, external)
    |                         |  \ <-- EXTENDS -- WorkerClock (history variable)
    |                         |  implements (WorkerProofs)
CoroutineProofs             WorkerLife (abstract worker)
                              |  the same steps, per thread (HttpServerProofs)
                            HttpServer
DbServer ---- DbServerProofs
ShmemMap -- implements (ShmemMapProofs) --> SharedMap (abstract map)
ChildProcess ---- ChildProcessProofs
AsyncServer ---- AsyncServerProofs
Tcp ---- TcpProofs
```

`MC*` modules add only what TLC needs (symmetry sets, sets of sizes and events).
Definitions marked "faulty variant" stand next to what they vary: each is a
plausible slip, and a property that does not notice it would be worth nothing.

**Coroutine.** `routines` is the vector (each with `func`, `finished` and the
frame its stack holds), `finished` the queue of ended ids, `current` the running
id or 0. `Create`, `Resume`, `Yield` and `Entry` are the functions of that name;
`Entry` is what runs when the function returns or throws: it marks the routine,
enters it in the queue and goes back to the caller. Machine contexts are
abstracted to the frame.

**Sockets** (external: the kernel as `Worker` uses it). Per descriptor: the
registration (`none`, `off` after a one-shot event, `in`, `out`), received units,
room in the send buffer, and how the peer ended.

**Worker.** `phase` is where `run()` is (test of the flag, `epoll_wait`, events,
sweep, drain), `todo`/`cur`/`step` the loop over descriptors and the place in
`handleClient`. A unit of input is a stretch of octets or the end of a head named
for what the head says (`get_ka`, `post`, `bad`, ...), so that requests arrive cut
at every boundary. `HTTP::Request` is abstracted to whether a head parses, keeps
the connection alive and has a length. `to_read` is unsigned: a body that is
longer than announced wraps it (`Wrapped`). One iteration of a reading or writing
loop is two steps: the time-out test (`TestClock`, or `GiveUp` if it fails), which
asks the clock, and one system call with what follows from it; in between the
thread touches only its own memory. `onRequest` is the user's and may throw
(`Respond`). The server's thread (`AddClient`, `Stop`), peers and the clock
(`Expire`) interleave at each step.

**WorkerClock** adds the history variable `barred` to `Worker`: the clients past
their limit that nothing may be read from or written to any more. A client is
barred when the limit passes while none of its coroutines runs, or with the first
call made after the limit; a coroutine that runs at that moment may be between the
test and the call, and gets this one call.

**WorkerLife** says what a worker promises its server; `Worker` is shown to
implement it (`KeepsPromise`, mapping `phase` to a life, `running` to the flag and
each descriptor to closed, queued or active).

**HttpServer** is `Server::run` with threads that live as `WorkerLife` allows. The
`for` loops over workers are stepwise, so a worker may be anywhere while the
server stops or joins another. An exception in a thread ends the process.

**DbServer.** `db` maps offsets to keys (sorted, as `test/generate.cpp` writes
them), `index` is the `std::map`. Building the index is stepwise; a query goes
through parsing the number (a text that is none gives 0, one that is too great the
greatest value, an empty one any value: the variable is uninitialised),
`getInterval` and `lower_bound`. Dereferencing `end()` yields any offset; reading
outside the mapping leads to the state `undefined`.

**ShmemMap.** Per process `pc`, its call, the block it is allocating or freeing
and the blocks it owns. Semaphores count. `allocate` is wait, compare, add, post
in separate steps; a new node goes where the search before the allocation found
its place (`seen`). `Kill` stops a process anywhere. The bottom `BaseSize` bytes
are the map's semaphore and the map object. **SharedMap** is the map whose calls
take effect at one instant.

**ChildProcess.** `obj` are the `Process` objects, `proc` the children as the kernel
knows them, `holds` which processes hold each of the four ends that one
`createDuplexPipe` makes, `level` what the two pipes contain. Starting a child is
stepwise (pipes, `fork` with a copy of every descriptor the parent holds, `close`
on both sides, `exec`), because calls of the parent and steps of older children
fall between. `fork` and `exec` may fail, a signal may interrupt `waitpid`, a child
may end at any time, and a write to a pipe without reader kills the parent.
`older` and `dropped` are history: which children were alive when a child was
forked, and which were given up unwaited. The program in the child is external: a
filter like `test/echo.cpp`.

**AsyncServer.** `connections` is the map (an entry is open or closed), `batch` and
`accepting` what is left of the array that `epoll_wait` filled, `cur`, `events` and
`owes` the connection that the callback has; `handleClient` sets a connection's
events before every callback, so those of others need not be kept. The callback is
the user's: it may read, write, close its connection or the server, and throw, and
`run()` may be called again. As in `example/async` it answers `ReadRdy` with a read
and uses `readToBuffer` only then; this matters, since `readToBuffer` on an empty
socket marks the connection closed. Level-triggered readiness follows the kernel:
hang-up and error are reported unasked, and what was received before a reset can
be read. `undefined` is the state after dereferencing `end()` of the map.

**Tcp.** The two threads of `example/tcp`, statement by statement where they block:
`writeExact` and `readExact` loop over transfers of any length, `echo` reads and
writes in turn. Octets are numbered, although the program sends equal ones, so that
a repeated or dropped octet shows. Closing with unread octets resets the
connection. `set_timeout` passes `SO_SNDTIMEO | SO_RCVTIMEO`, whose value on Linux
is that of `SO_SNDTIMEO`: only writes time out.

## 3. Runs

Passing:

| Run | Instance | Shows |
|---|---|---|
| `coroutine` | 3 routines, 2 functions | the free queue holds exactly the ended ids, once each; nothing touches a suspended routine; ids are recycled in each order |
| `worker_one_client` | 1 descriptor, all kinds of heads, all endings, reads of up to 3 units, responses in two writes | types (`to_read` included) |
| `worker_stale_handles` | 2 descriptors, keep-alive and unparsable heads | nothing dangles although handles go stale; every connection stays armed; `WorkerLife` is implemented; after its limit a client is read from or written to at most once, by the call whose time-out test was before the limit, stale handles and drain included; a worker that sees its flag down drains and returns |
| `worker_service` | 2 descriptors, keep-alive requests with bodies, some longer than announced | whenever the worker blocks, each client is armed for what its own coroutine waits for; input is read; clients past their limit are closed, one whose reader waits for more octets than can ever come (`Wrapped`) included |
| `server` | 3 workers, 3 descriptors, 4 connections | hand-over only to serving workers, clean return, return after `stop()` once the workers run |
| `db_lookup` | all sorted files of up to 6 records, keys 0..7, every third record sampled, complete or torn | exact lookup below the greatest indexed key; only records at the tail are missed |
| `shmem_map` | 2 processes that may be killed, 2 keys, 2 values, room for 2 nodes or a node and 2 strings | disjoint memory, atomic calls; unless somebody is killed semaphores come back, failed allocations included |
| `child_process` | 2 objects, 2 pids, 2 pairs of pipes that hold one unit, calls of up to 2 units | every end and pid has one owner; no child is left unwaited except after move assignment or an interrupted destructor; the destructor returns if no later child is alive; `writeExact` returns if the unread data fit the two pipes |
| `async_server` | 2 numbers, input of 2 units, users who ask for input, for the end, or for everything | events find their connections; sockets and entries correspond; `Closed` is true; input is not thrown away; ended connections are erased and full peers unblocked while `run()` goes on |
| `tcp` | 1, 3, 7 and 8 octets; 3 per direction, echo buffer of 3 | what comes back is what was sent; no socket is left or closed twice; no reset; both threads end if the octets fit |

Violations, each a disagreement of the code with its own comments:

| Run | Says | Happens |
|---|---|---|
| `worker_resumes_own` | "resume client coroutine" (`Worker.cpp:98`) | a kept-alive client sends a request that does not parse; its coroutine ends but its `ClientState` stays; the id goes to the next client, whose coroutine the first one's events now resume |
| `server_stop` | "stop server loop" (`Server.hpp:24`) | `Worker::stop` before the thread enters `Worker::run` is overwritten by `running = true` (`Worker.cpp:41`), and `Server::run` waits for ever in a join |

Two further disagreements are described by passing properties instead. "close all
clients on stop" (`Worker.cpp:78`): a connection that had no event before the stop
is not in `clients` and stays open; `WorkerLife` therefore lets a worker end with
connections that are `queued`, and no others. "Get offset interval in wich key is
located" (`Index.hpp:20`): `lastKey % step` (`Index.cpp:13`) tests the key instead of
its offset, so that with a greatest key that is a multiple of the step the records
from the last sample on are out of bounds; and the greatest key itself has no upper
bound, so that `end()` is dereferenced (`Index.cpp:24`; `HitEnd`). `MissesOnlyTail`
says that nothing else is missed.

**Bounds.** Two descriptors suffice for a handle to be stale and its id to be live
under another client, which is the worst that recycling does; `RcvMax` and
`BufSize` are chosen so that a read ends in the middle of a head, at its end and
behind it; `RespLen` 2 with room for 1 makes a write block half-way. In
`worker_service` a body has one unit and a read takes two, so that a head with two
units behind it takes `to_read` below zero. Three workers
make the server's loops have a first, a middle and a last iteration, and four
connections take the round-robin past its wrap. Six records at step three give a
full block, a partial block and the boundary between them. Five bytes of memory
let blocks be freed out of order and memory run out. Two children are an
older and a younger one; pipes of one unit are full after one write, and calls of
two units block half-way. Two numbers let one be closed and reused while an event
of the other waits. Seven octets are the most that fit twice three octets and a
buffer that has read one (`Fits`), eight block. `MaxAccepts`, `Backlog`, `RcvMax`,
`SndMax`, `MaxRoutines`, `InMax`, `OutMax`, `PipeCap`, `ChildBuf`, `MaxLen`, `Cap`
and `Buf` are the caps; all but the first and `MaxRoutines` are sizes of the
kernel's or the program's buffers.

**Symmetry** is used for descriptors in `worker_resumes_own` only, which has no
liveness property.

**Deadlock** is checked everywhere except in `shmem_map`, where all processes may be
killed, `child_process` and `async_server`, where the program may be killed by
SIGPIPE or be over, and `tcp`, where sizes that do not fit block both threads.

**Fairness.** `Worker`: the thread is scheduled and the clock goes on (`Fairness`:
weak fairness of `Thread` and of `Expire` for some client, written with the states in
which they are enabled, which TLC need not compute then). The clock is needed: a peer
that always has input ready keeps its coroutine and the thread busy until its limit
passes. Nothing is assumed of peers. `ExpiredClosed`
is stated only for behaviours in which `epoll_wait` times out again and again: the
code closes idle expired clients in that case alone. `HttpServer`: each thread is
scheduled, and a draining worker closes its clients, which is what `StopDrains`
shows of `Worker`. `ShmemMap`: a process in a call goes on if it can; semaphores
favour nobody, so the map's lock is promised to come back only once the callers'
own allocations do not overtake its holder for ever. `ChildProcess`: the parent
goes on with the call it is in and children are scheduled; nobody is obliged to
call anything. `AsyncServer`: the thread in `run()` is scheduled and the callback
reads when told `ReadRdy` and returns; nothing is assumed of peers and users. `Tcp`:
both threads are scheduled; nothing makes a call fail.

## 4. Proofs

Every safety property that a passing run checks (invariants, action properties and
both refinements) is also a theorem, proved for all values of the constants.

| Theorem | For all | Inductive invariant |
|---|---|---|
| `OrdinatorSound`: `OrdinatorOK` always holds | numbers of routines, functions, frames | the invariant itself with types: the queue has no duplicates and holds exactly the ended ids, and the running routine is live |
| `SuspendedUndisturbed`: `LiveRoutinesKept` | the same | needs `OrdinatorOK`: `create` takes a slot from the queue, and what is in the queue has ended |
| `WorkerTyped`, `WorkerOrdinatorSound`, `CoroutinesOwned`, `ClientsStayOpen`, `NoConnectionDisarmed`: `TypeOK`, `OrdinatorOK`, `RoutinesOwned`, `ClientsOpen`, `AllArmed` | descriptors, units, buffer sizes | `WorkerInv`: the types and `OrdinatorOK`; each live coroutine has a client that holds its handle (`LiveOwned`), so that by counting there are at most as many coroutines as descriptors; what the loop has in hand at each step of `handleClient` (`LoopOK`); a disarmed descriptor is the one in hand or still in the array of events (`OffExplained`) |
| `DrainTakesTwoPasses`: safety half of `StopDrains` | the same | `DrainInv` on top of `WorkerInv`: a coroutine that has not ended belongs to a client that this pass has still to visit or has in hand, and the client in hand is marked timed out, so that its own coroutine makes no call and ends when it is resumed. After the first pass no coroutine is left; then every visit closes its client |
| `DrainTakesOnePass`: a client still in the map has not been visited yet | the same, if no head fails to parse | `WakeInv` and `DrainInv`. Without the hypothesis it is false: a visit through a stale handle ends another client's coroutine and leaves its own client in the map |
| `TimedOutOneCall`: `OneCallAfterTimeout` | the same | `WorkerInv` and `CallAllowed`: the client of a coroutine that is past its test is not barred. The test holds back every coroutine of a barred client, and a client is barred only while none of its coroutines runs or by the call that its coroutine makes, after which the loop is at its test again |
| `WorkerRefinesLife`: `KeepsPromise` | the same | `WorkerInv`: what a coroutine does shows neither in the descriptors nor in `clients`; `ClientsOpen` makes taking up and closing steps from the right state; `run()` returns with `clients` empty |
| `WakeUpsNotLost`: `WakesWhenNeeded` and `ResumesOwnCoroutine` | the same, if no head fails to parse (`"bad" \notin Unit`) | `WakeInv` on top of `WorkerInv`: each client's own coroutine is live, and the direction it is armed for is the one it suspended with |
| `ServerReturnsClean`: `ReturnedClean` | numbers of workers, descriptors, connections | `ServerInv`: workers below `i` are born (spawn loop) or ended (join loop); until the stop loop a serving worker's flag is up; a worker that has ended holds nothing |
| `ServerHandsToServing`: `HandsToServing` | the same | the same: before the stop loop no worker can have left its loop |
| `ServerTyped`: `ServerTypeOK`; `ServerDealsEvenly`: no worker was given over one connection more than another | the same | `Counted`; `Dealt`: after `q` rounds the workers below `r` have had one turn more |
| `ServerKeepsToLife`, `ServerAdmitsEveryWorker` | the same | `ServerInv`. First: seen from one worker, the server takes only steps of `WorkerLife`. Second: what a worker does by itself in `WorkerLife`, its thread can do here. With `WorkerRefinesLife`, what holds of the server holds with `http::Worker` in it |
| `DbLookupExact`: `LookupExact`; `DbTyped`: `DbTypeOK` | sorted files, steps, key ranges | `DbInv`: an index entry leads to its record, or to the end of the file if it is the greatest key's; the first record is sampled; hence the interval encloses the key's record |
| `DbMissesOnlyTail`: `MissesOnlyTail` | the same | `DbInv` and `Tail`: samples are at multiples of the step, and the last multiple below the size is reached before the index is ready; a key that is missed is not below any entry |
| `ShmemBlocksDisjoint`: `BlocksDisjoint`; `ShmemTyped`: `ShmemTypeOK` | processes, kills, sizes | `MapInv`: `Control` (each semaphore admits one process, the tree a node is linked into is the one searched, the block in hand is the topmost or one's own) and `Memory` (disjointness by kind of holder, all below the pointer) |
| `ShmemSemaphoresHeld`, `ShmemNoDeadlock`: safety half of `LocksReleased` | the same, while nobody has been killed | `MapInv` and `SemaphoresHeld`: a semaphore at zero has a holder inside. The allocator's holder never waits; the map's holder waits only for the allocator's; so whenever a process is in a call, one of them can take its next step |
| `MapCallsAtomic`: `ActsAtomically` | the same, values other than the string `"none"` | `AtomicInv`: `MapInv` and which points of a call lie before and behind the step at which it takes effect (`Results`) |
| `ChildrenTyped`, `DescriptorsNotLeaked`, `PidsNeverStale`, `NoChildForgotten`: `PTypeOK`, `DescriptorsOwned`, `PidsOwned`, `ChildrenHandled` | objects, pids, pipes, sizes | `ProcessInv`: these four, which object and pipes the call under way works on (`CallOK`), and that an object without a child holds nothing while a child the kernel knows has a pair of pipes (`Holders`) |
| `PipesConfined`: who holds the ends of a living child's pipes | the same | `PipesInv` on top of `ProcessInv`: only living children hold anything; a child's own ends are held by it alone; the parent's ends of its pipes by children started later; no two living children, and no object of another child, use the same pair |
| `ParentNotStuck`: safety halves of `DestructorReturns` and `WriteReturns` | the same | `PipesInv`. Once the destructor has closed the child's input nobody but a younger child holds it open, so the child reads, writes, or sees the end; a full pipe down, a full buffer and a full pipe up are more than two pipes hold. Without the proviso on younger children it is false |
| `TcpTyped`, `EchoIsExact`, `SocketsOwned`, `NeverResetsItself`: `TcpTypeOK`, `EchoedExactly`, `EndsOwned`, `OrderlyClose` | numbers of octets, capacities | `TcpInv`: where each thread is and which connection it uses (`Control`, `Locals`, `Quiet`), and that the octets written so far lie in order in what was got, the stream back, echo's buffer and the stream forth (`Round`), so that nothing is left when `readExact` has them all |
| `NeverBothWait`: safety half of `RoundTripEnds` | the same, while the data `Fits` and no call has failed | `TcpInv` and `Ahead`: nothing is read before everything is written, the loops have octets left, and the server accepts again in time. With both directions full and an octet in echo's buffer, more would have been written than there is. The bound is exact: with 8 octets and room for 3 per direction both threads wait |
| `AsyncEventsFindConnections`, `AsyncOwnersExact`, `AsyncClosedIsReal`: the invariants of these names | numbers, buffers, events asked for | `AInv`: for each number who owns its socket (`SocketOK`) and that an event in the array is of an open entry and still true (`BatchOK`); for the callback that its own event is out of the array, that a pending `ReadRdy` means input or an end, and that `Closed` means an end (`CallbackOK`) |
| `AsyncNoInputLost`: `NoInputLost` | the same | `CallbackOK`: `Closed` that was not asked for comes from a reset or from a read that found nothing |

They rest on the named assumptions of the modules: at least one worker, a
positive step, sizes that are natural numbers and blocks that are not empty, a
region that holds the map object, events that the library knows, finitely many
descriptors (`FdAssumption`, for the counting argument), and on the two hypotheses
in the table. That no head fails to parse is what the code needs: with heads that
do not, `worker_resumes_own` shows a client's event resume another's coroutine. The
string `"none"` is the model's mark for a call without result yet, which a value
must not be mistaken for.

Only model-checked: the liveness properties (`StopDrains`, `InputConsumed`,
`ExpiredClosed`, `StopWhenServing`, `LocksReleased`, `DestructorReturns`,
`WriteReturns`, `GoneIsErased`, `PeerUnblocked`, `RoundTripEnds`). Liveness under
fairness is outside what TLAPS can do here; what can be proved of it is that nobody
is stuck or that a loop's work runs out, and for the five properties named in the
table it is. That those who can go on are scheduled, and that their steps come to an
end, is left to fairness and to TLC.

Conversely some theorems have no run of their own: `ServerDealsEvenly`, the two that
tie `HttpServer` to `WorkerLife`, and the safety halves above, whose definitions
stand in the proof modules. The latter were checked with TLC on the instances of the
runs before they were proved, with `CanGo`, `CanGoOn` equal to the actions' ENABLED.

## 5. Not modelled

* Texts of requests and responses; `HTTP::Request` by its outcome only.
* Opening listening sockets, which has no state beyond success.
* In the worker: errors of `epoll_wait` other than `EINTR` (`Worker.cpp:50`) and a
  failing `epoll_ctl` in `addClient` (`Worker.cpp:36`). Each throws out of a thread,
  or out of `Server::run` while its threads are joinable, and so ends the process, as
  `Crash` and `AcceptFails` do. A failing `swapcontext` (`coroutine.cpp:93`), which
  `resume` reports and `handleClient` ignores: the calls that glibc makes in it do
  not fail. The search for the end of a head begins up to three octets before the
  buffer when fewer than three octets were read earlier (`ClientState.cpp:55`):
  undefined by the standard, but what lies there are the upper octets of the
  allocator's size field, zeros that begin no `\r\n\r\n`.
* `sem_wait` interrupted by a signal, after which the code goes on without the
  semaphore (`SemaphoreMutex.hpp:31`, `ShmemAllocator.hpp:37`, `:50`): no program of
  the repository that uses shared memory installs a signal handler, so that a signal
  either is ignored or ends the process (`Kill`).
* In `shmem`: mapping and unmapping, destructors, iteration without the lock,
  alignment, and overflow of `sizeof(T) * n`.
* `ucontext_t` internals. Examples and test programs other than `example/tcp` are
  drivers, read for usage.
* `http::Fd`: an owning wrapper with four one-line operations; its descriptors are
  modelled where they are used. The logger: one pointer, one level and text output,
  without locks; used by one thread it has no states that could go wrong, used by
  several it is a data race.
* Addresses and ports, moves of `tcp::Server` and `AsyncServer`, contents of
  `AsyncConnection`'s buffers, `set_max_connect`.
* In `process`: arguments of the child's program (`exec_utils.cpp:13` creates the
  vector with its elements and then appends, so that it begins with null pointers),
  and a parent without standard streams, whose pipes would get descriptors 0 and 1.

Dangers without a property, beyond those in `PROJECT.json`: a pipelined request
behind a head without length is dropped (`ClientState.cpp:119`, modelled); zero
workers by default on one core (`Server.cpp:131`, excluded by `NWorkersAssumption`); a
file without a complete record (`Index.cpp:11`, `Underrun`); keys that are no numbers
(`DbServer.cpp:29`, `Parsed`); the result of `mmap` is not tested and `destroy()` unmaps
what the map's destructor still uses (`Shmem.cpp:15`, `:32`); routines are moved by
`emplace_back` with their contexts (`coroutine.cpp:69`); a failing `accept` in
`example/tcp` leaves main waiting (`ServerThrows`, excluded from `RoundTripEnds` by
`failed`).

## 6. Plan

Done, in this order: coroutines; sockets and worker; the worker's abstract life and
the server; the database; shared memory; child processes; the callback server;
blocking connections; proofs of every safety property that is checked. Next:

1. Proofs: the safety halves that are left, of `GoneIsErased`, `PeerUnblocked`,
   `InputConsumed` and `ExpiredClosed`.
2. Tear-down of shared memory; unlocked iteration.
