# Verification of linuxPrograms

The repository is a collection of Linux system programs in C and C++: three
families of TCP servers (epoll with a thread pool, epoll with one process of
many threads for a million connections, poll and select with a connection
table), a socket library with heartbeat demos, data structures, and small
programs around signals, daemons, message queues, serial ports and processes.
This directory holds TLA+ models of its stateful parts, TLC configurations
that check them on small instances and TLAPS proofs.

## Inventory

| Part | State | Operations | What is hard |
|---|---|---|---|
| thread pool (`IOModels/epoll/epollTcpServer/src/threadpool.c`) | circular queue, counters, shutdown flag, mutex, condition variable, threads | create, add, worker loop, destroy, free | lost wakeups, shutdown racing waits, wrap-around, freeing while in use, failed thread creation, second destroy |
| epoll server (`op_epoll.c`, `test/test.c`) | epoll set, `events[]`, client list | wait loop, accept, read handler in the pool | pointer into `events[]` handed to another thread, unsynchronised list of fixed length, one read per edge, descriptors never closed |
| million-connection server (`c1000kPracticeGuide/cppserver`) | accepted list, per-worker send buffers, per-fd items, timers | accept thread, dispatch, socketpair, worker loop, timeouts | partial sends into a fixed buffer, batching, LIFO hand-over, timers against closes |
| its load client (`c1000kPracticeGuide/client`) | per-connection items, timers | connect, receive, close | as the server's workers |
| poll server (`IOModels/poll/serverModel.c`) | connection table, poll array, counter | accept, receive, transmit, close, evict | slot and descriptor reuse, counter, nonblocking reads, retries under a lock |
| select server (`IOModels/select/serverModel.c`) | connection table, fd sets, counter, send buffer, hook threads | the same, with a hook thread per request | hook threads without a lock, timeouts, partial sends, failed thread creation |
| socket library (`sockapi/libsrc/etcp.c`) | stream positions | readn, writen, readvrec, readline, connect, listen | short reads and writes, EINTR, errors half-way, records larger than the buffer |
| heartbeat demos (`sockapi/demo/heartBeat1`, `heartBeat2`) | missed-beat counter, timeout | select loop on both sides | timeout against late answers |
| sigio demo, daemon with SIGHUP | a flag set by a handler | handler, main loop | signals between any two steps of the loop |
| `readLine` (`lib`), CRC (`crc`) | a buffer; a register | read a line; check value | cut-up input, table entries |
| queues (`dataStruct/queue`) | circular array, linked list | enqueue, dequeue, full, empty | full/empty at wrap |
| other (`get_num`, `mqueue`, `serialPortapi`, `signals`, `pgsjc`, `threads`, `users_groups`, `test`, `bitree`, `list`) | little or none | pure functions and one-shot programs | parsing edges |

How the parts interact.  In `epollTcpServer` the event loop is a client of the
pool: it submits one task per readable descriptor and the tasks run `handle`.
In `cppserver` three kinds of threads form a pipeline: the main thread accepts
and publishes batches in `acceptedFDlist` (mutex and condition variable), the
dispatcher writes them as ints to one socket pair per worker, and each worker
registers what it reads, serves it and closes it; the array `gFDITEM`, indexed
by descriptor, is shared by all of them without a lock.  The poll and select
servers are one event loop and a hook thread per request.  The demos of
`sockapi` use the stream library `etcp.c`.  The remaining programs stand alone.

What makes each part correct:

* pool: accepted tasks run once, in order, and are not lost; a shutdown ends,
  drains when asked to, and frees nothing that is still used;
* epoll server: every readable connection is read, the client list is the set
  of connected clients;
* `cppserver`: every accepted connection reaches exactly one worker, has one
  timer while it lives, and leaves nothing behind for the next user of its
  descriptor; a worker wakes for its timers and its connections;
* connection tables: a slot belongs to one connection, table, counter, poll
  array and open descriptors agree, one client cannot hold up the others, and
  a response is sent once and whole;
* stream library, `readLine`: a record or line is delivered whole, or cut where
  it should be, whatever the segments;
* heartbeat: a live peer is not declared dead, a dead one is, in time;
* signal flags: no signal is lost;
* CRC: the remainder of the polynomial division;
* queues: FIFO.

## Modules

| Module | Models | State and actions |
|---|---|---|
| `ThreadPool` | `threadpool.c` | the fields of `threadpool_t` keep their names; `lock` is the holder of the mutex, `pc` where each thread is, `heap`/`mutexInit`/`condInit` what is allocated and initialised; `submitted`, `taken`, `done` are history. One action per critical section: `AddLock`/`AddAccept`/`AddReject` is `threadpool_add`, `WorkerLock`/`WorkerWait`/`WorkerTake`/`WorkerReturn`/`WorkerExit` is `threadpool_thread`, `Destroy*` is `threadpool_destroy`, `Create*` is `threadpool_create` with its failures. `DestroyLockStale` is a destroyer that locks a mutex another one has destroyed, `CreateHang` the lock of one that was never initialised; what follows either is undefined and not modelled |
| `TaskService` | what the pool promises | a bounded FIFO with servers and two ways to close; `ThreadPool!ImplementsTaskService` is the refinement |
| `ThreadPoolProofs` | proofs about `ThreadPool` | |
| `Timers` | class `TIMER` (`timers.cc`) | a record of two bags with the operators `add_timer`, `remove_timer`, `Expired`/`Popped` (`get_timer`) and `get_mintimer` |
| `ConnWorker`, `MCConnWorker` | `worker.cc`, `process_event.cc` and `FDITEM` | per worker its epoll set, undelivered edges, event list and `TIMER`; per descriptor its kernel state, its peer and its `gFDITEM`. `EpollWait` … `EventsDone` is the first half of `process_event`, `Timeout` the second, `Register` is `process_connection`, `ClientEvent` is `process_one_event` with `client_readfun`, `CloseRemove`/`CloseInit`/`CloseFd` are the three statements of `client_closefun`, kept apart because another thread may get the descriptor in between |
| `Dispatch` | `listenfd.cc`, `main.cc`, `readfun_getConnections` | the main thread, the list, the dispatcher with its send buffers of `SendBufLen` bytes, the socket pairs byte by byte, the reading side of the workers; `overrun` says that a batch was moved beyond the end of a buffer |
| `Sockets` | the kernel's sockets and the clients, as the poll and select servers use them (external) | per descriptor its peer, whether bytes are waiting and what room its send buffer has; `ClientStep` is a client that connects, sends, reads, closes or resets |
| `PollServer` | `poll/serverModel.c`, `.h` | `pClients`, `watchedfds`, `connectionsActive`; `ServerRun`, `PollAccept`/`PollNoAccept` (poll, accept and `NewConnection`), `ReceiveLoop` and `TransmitPendingLoop` slot by slot, `SendSome`/`SendBlocks`/`SendFails` the calls of send in `TransmitPending`. Clients act between any two steps |
| `SelectServer` | `select/serverModel.c`, `.h` | the same table with the sets `readReady`, `writeReady`, `needWrite`, the waiting time and `hook`, what the thread of a slot does: `ServerRun` with its states, an iteration of its do-while a step (after a thread was started the test, `RunTest`, is one of its own), `SetFds`, `SelectAccept`, the two loops, `HookThread` |
| `SendBuffer` | `TransmitPending` of the select server | one step per call of `send`; pointers are offsets into the buffer |
| `EpollServer` | `op_epoll.c`, `test/test.c` | `events[]`, `clilist`, `tailindex`, the epoll set with its edges, the queue of the pool; `StartServer` is the loop, `handle(t)` a task, whose `del_clilist` is two steps (`Shift`, `Drop`) because nothing locks the list. A read takes at most `LINE` bytes; `Descriptors` are used up for good |
| `Stream` | `readn`, `writen`, `readvrec` | one step per `read` or `write`, which may fail; a byte is its record and place; `mode`, `buf`, `want`, `reclen`, `len` are the reader's |
| `Lines` | `readline`, and its caller `keep.c` | one step per `recv`, which may fail, with the copying that follows it |
| `ReadLine` | `lib/src/read_line.c` | one step per byte or error; a position is a line and a place in it |
| `Heartbeat` | `heartBeat1`, both programs | `tv`, `missed`, the part of the message that has come; `Timeout`, `Receive`; `Tick`, `Cut`, `Kill` and `Talk` are time, the network, a kill and the client's application |
| `Heartbeat2` | `heartBeat2`, both programs | the same over two connections; the client may wait in `recv` outside `select` |
| `Daemon` | `daemon_SIGHUP.c` | the loop statement by statement, the handler, a clock of `Second` ticks to a second, an administrator who changes files and signals |
| `Sigio` | `demo_sigio.c` | the loop, the handler, the keyboard |
| `Crc16` | `crc16.c` | the tables, one step per byte |
| `Fifo` | what a queue promises | |
| `ArrayQueue`, `LinkedQueue` | `queueArray.c`, `queueLinkList.c` | the fields of the queue; one action per call; `LinkedQueue` has an explicit heap |
| `ConnWorkerProofs` | proofs about `ConnWorker` and `Timers` | |
| `DispatchProofs` | proofs about `Dispatch` and `MCDispatch` | |
| `PollServerProofs`, `SelectServerProofs` | proofs about the two connection tables; the facts about `Sockets` come first in each | |
| `EpollServerProofs` | proofs about `EpollServer` with both kinds of clients of `MCEpollServer` | |
| `Library` | `ArrayQueue`, `LinkedQueue`, `Stream`, `Lines`, `ReadLine`, `SendBuffer` | `which` chooses the part that runs; the others stand still, so that the state spaces add up. Lengths of records and lines, sizes of buffers and the nodes are CONSTANTS |
| `LibraryProofs` | proofs about `Library`: both queues and the four transfers of bytes | |
| `ProgramsProofs` | proofs about `Daemon`, `Heartbeat` and `Heartbeat2` as parts of `MCPrograms` | |
| `MCDispatch` | `Dispatch` over two kinds of sockets | `sockets` chooses between small ones that take any number of bytes and ones that take whole ints; both are instances over the same variables |
| `MCEpollServer` | `EpollServer` with two kinds of clients | `clients` chooses between "polite" ones, who leave the server time, and "busy" ones |
| `MCLibrary` | `Library` and `Crc16` | one more part to choose, apart because its reference definition is recursive and works on bits, and the values for the run |
| `MCPrograms` | `Daemon`, `Sigio`, `Heartbeat`, `Heartbeat2` | as `Library` does |

An action stands for a whole critical section or a whole call wherever no other
thread can observe the middle of it.  Definitions introduced by "Seeded fault"
are the code with one plausible mistake; they are used only to make sure that
each property notices one.

## Runs

| Run | Instance | What it shows |
|---|---|---|
| `pool_safety` | 3 workers, queue of 2, 2 clients, 2 callers of destroy, 5 calls of add, everything in `threadpool_create` failing | the ring is a FIFO, each task runs once, `started` counts the threads, no wakeup is lost and nobody sleeps through a shutdown; a graceful shutdown drains before the free, a shutdown is final; the pool implements `TaskService`. `NoUseAfterFree` and `LockGivenBack` say that nobody but a destroyer overtaken by another meets a freed pool or keeps the lock (deviation 2) |
| `pool_liveness` | 2 workers, 1 client, 4 calls | every accepted task runs, every shutdown completes |
| `pool_uninitialised` (violation) | 2 workers, failing initialisation | deviation 1 |
| `conn_worker` | 2 workers, 2 descriptors, 3 connections, time up to 2 with a timer period of 1 | `OneTimerEach` (with the mirrored maps, none overslept), `FreshOnReuse`, `SingleOwner` (with the callbacks): sharing of `gFDITEM` and of descriptors, timers against closes |
| `conn_worker_live` | 1 worker, 2 descriptors, time up to 3 with a period of 2 | due timers served, closed peers released |
| `dispatch` | 2 workers, batches of 2, 5 connections (one refused), ints of 2 bytes, send buffers of 4, receive buffers of 3; sockets of 2 bytes, with errors of `accept` and `send`, or sockets of 8 that take whole ints | until a buffer is overrun no byte and no descriptor is lost, repeated or reordered under arbitrary partial sends; with whole ints the whole path, with liveness |
| `dispatch_stranded` (violation) | a socket pair with room for one int | deviation 3 |
| `poll_server` | 4 slots of which 2 are reserved, 2 descriptors, resets, clients that read | `TableAgrees`: table, poll array, counter and open descriptors; the main loop comes round for ever |
| `select_server` | 4 slots of which 2 are reserved, 2 descriptors, no, inline or threaded callbacks, resets, failing `pthread_create` | `TableAgrees`: table and open sockets, the counter never too high; a hook thread owns its slot until it returns |
| `epoll` | polite clients: list of 3, 3 descriptors, 2 threads, messages of up to 2 bytes for a read of 3; busy ones: list of 1, 2 descriptors, 1 thread, 2 bytes for a read of 1 | `ListsAgree`: an event of the listening socket always finds a connection; with polite clients the server neither exits nor leaves the list, and list, epoll set and connections agree when idle. Every message of a polite client is read |
| `library` | arrays of 4 slots, 4 addresses; 5 records of 1 to 5 bytes into a buffer of 2; 7 lines into a buffer of 5 with 3 interrupts; 5 lines into one of 4; a response of 3 through a socket of 3 bytes, any call of `read`, `recv` or `send` failing; frames of up to 3 bytes, the first one any byte | both queues implement `Fifo`; records and lines whole, in order, up to an error and otherwise to the end; a response complete, and nothing of it twice within a call; every entry of the CRC tables, and the receiver's zero |
| `programs` | daemon: interval of 3 s of 2 ticks each, 2 changes of each file; sigio: 5 keys; heartbeats: T1 = 4, T2 = 2, delay up to 2, `select` late by up to 1, messages in two pieces or over two connections, either side killed and the network cut at any time | no SIGHUP lost, the interval never longer and shorter by less than a second per signal; what a signal asks for is done; no false alarm, failures noticed in time, both programs end after one, but for the client of deviation 15 |

Where a run names a property with several parts (`OneTimerEach`, `TableAgrees`,
`TransfersExact`, ...) each part is a definition of its own in the module
of the component.

Bounds.  `MaxCalls`, `MaxAccepts`, `MaxConns` and `Horizon` only end the
behaviours.  They are chosen so that the interesting cases occur: five tasks
through a queue of two wrap both indices and meet a full queue, three workers
allow one to sleep, one to be woken and one to take the task in between; three
connections over two descriptors reuse a number while its former worker is
still in `client_closefun`; the period of the timers is shorter than the
horizon, so that timers fire and are set again; five connections in batches of
two fill a batch, leave a partial one and reach `MAX_FD`; a socket of two bytes
takes half of an int, a receive buffer of three leaves a remainder at every
full `recv`, and a send buffer of four is overrun by the second batch of a worker
that does not drain.  `ConnWorker` is checked with the
symmetry of the workers, invariants only.

In `epoll` the polite clients stay below the lengths of the list and of a read,
the busy ones exceed both and use up the descriptors.  Two destroyers are enough
for one to overtake the other before its lock and for one to find the shutdown
under way.  The daemon's clock is finer than its seconds, so that a signal comes
inside one.  Nothing bounds the faults of the heartbeat runs.

In the connection tables two slots can be taken and two stay reserved, as the
last ones do in the code; two descriptors force their reuse.  `MaxIdle` caps
`idleTime` above the value at which a slot may be evicted, `Room`, `Backlog`
and `MaxData` are the capacities of socket buffers and queues, `MaxSent` ends
the recording of a response that is sent again and again.  `Callbacks`,
`HookStates`, `NDEBUG` and `SpawnFails` choose among the programs that can be
built from the select server: as it stands no callback is registered.  The
record lengths of `Stream` are shorter than, equal to, longer by one and more
than twice the buffer; those of `Lines` and `ReadLine` likewise.  In the
heartbeat runs the longest round trip, 4, is longer than the time between two
heartbeats and shorter than three of them, which is what the protocol needs.
`MaxQuiet`, `MaxIntr`, `MaxKeys`, `MaxChanges` and `MaxLen` only end histories.

Fairness.  Liveness assumes weak fairness of each thread's steps: the scheduler
runs a thread that can run.  In the modules that choose among several parts it
is stated for each part while it runs.  The mutex of the pool is not assumed
fair (only that somebody gets it when it stays free), tasks are assumed to end,
and spurious wakeups to be finitely many.  Nothing is assumed of clients, peers
or the clock, with these exceptions.  `PollServer!ReadingSpec` says that clients
read what they are sent; without it the loop may hang (deviation 6).  The
heartbeat programs and the daemon depend on time, so time is fair there; in
`Stream` and `ReadLine` the sender goes on or closes.  Errors of system calls are
never assumed to happen.

## Deviations

What the models do that a reader of the code would not expect.  Each is
a fact of the code that its model keeps; the properties are stated so that they
hold in spite of it.  Numbers 1 and 3 contradict comments of the code and have
runs of their own, `pool_uninitialised` and `dispatch_stranded`.

1. `threadpool_free` locks and destroys the mutex and the condition variable
   when `pool->threads` is allocated; its comment says they are then
   initialised, but `threadpool_create` allocates first and initialises later.
   `CreateHang` is one outcome of that lock, the other being that it succeeds.
2. Nothing keeps a second `threadpool_destroy` apart from the first.  One that
   comes to the lock after the first has freed the pool locks a destroyed mutex
   in freed memory (`DestroyLockStale`); one that takes the lock while the first
   is joining returns with the lock held (`break` before the unlock), and
   the workers and the first caller block for ever, with the tasks of a graceful
   shutdown unprocessed.  `NoUseAfterFree` and `LockGivenBack` say that nobody
   else is ever in either position.
3. What `sendConnectionsToWorker` could not send stays in `sendfdBuff` until
   another batch goes to the same worker: `main` registers neither `EPOLLOUT`
   nor `fdsend_writefun` for the socket pairs.  That buffer has a fixed length and
   the `memmove` into it is not checked: batches for a worker that does not
   drain its socket run over its end, first into the unused element of the next
   descriptor, then into the length and the bytes of the next channel.  The model
   records the overrun and follows it no further; what it claims of bytes and
   descriptors holds until then.  A `send` that fails, for whatever reason, leaves the
   rest of the buffer as a full socket does.
4. Poll server: `TransmitPendingLoop` "closes" every free slot, and each close
   decrements `connectionsActive`, which is then 0 while clients are connected;
   `ReceiveLoop` no longer reads from them.  So the eviction of an idle connection
   that a comment announces (`serverModel.c:234`) is never reached
   (`PollNeverEvicts`), and the close after a failed send (110-113) does nothing:
   only `ReceiveLoop`, right after an accept, closes connections.
5. Poll server: `fd | POLLIN` is always true, so a connected client that has
   sent nothing yet is read from and closed on `EAGAIN`.
6. Poll server: the `break` after three retries leaves the `switch` only; a
   client that does not read keeps the server in `TransmitPending`.
7. Select server: the same counter; when all slots are taken nothing is read
   any more and nobody is evicted.
8. Select server: `SpawnHookThread` stores the result of `pthread_create` in a
   bool and returns true on failure; the connection stays marked as running.
9. Select server: the close of an expired connection does nothing when the
   counter has been used up.
10. `TransmitPending` (select): after `EWOULDBLOCK` the response is sent from
    its beginning again by the next call.  `CompleteAtEnd` asks that nothing is
    missing, `OnceUnlessBlocked` that nothing is repeated before that has
    happened (history `again`).
11. `TransmitPending` (select): after a partial send the loop goes on sending
    zero bytes.
12. Epoll server: after `EAGAIN` the handler writes 0 bytes and takes the
    result for a disconnection; a live client is deregistered.
13. Epoll server: `del_clilist` and `add_clilist` race; a connected client is
    lost from the list.  The list has 256 entries and nothing checks it: with
    more clients, or after deleting one that is not in it, `tailindex` leaves the
    array (and overlaps it: `clilist[256]` is `tailindex`).  The model stops
    there; polite clients do not come so far.
14. `readline` throws away what follows the newline in its local buffer;
    `LinesExact` speaks of histories in which that has not happened (`lost`).
15. `heartBeat2`: the client receives from `chb` where `sdata` is readable, outside
    `select` and without a timeout.  When the server has ended and the network is
    cut before the end of `chb` comes, it waits there for ever and sends no
    heartbeats.  The properties name this state, `Deaf`, as the only exception.
16. `demo_sigio.c` resets its flag after reading, and loses a signal that comes
    in between.  (`daemon_SIGHUP.c` resets it first; `Daemon` shows that this
    loses none.)
17. Epoll server: `handle` reads once, at most 255 bytes, per edge.  What is left of
    a longer message, and the end of the connection behind it, are read only
    after the next edge, if there is one.  A line filled to the last byte is not
    terminated, so `strlen` of it is undefined, and one with a byte 0 is cut there;
    for clients that are not polite the model takes any length up to what was
    read, since only a length of 0 makes a difference (deviation 12).
18. Epoll server: a connection that ended is taken out of the epoll set and the list
    but its descriptor is never closed.  When they are used up, `accept` fails and
    `start_server` exits.
19. `daemon_SIGHUP.c`: `sleep` returns whole seconds.  A SIGHUP inside a second
    loses the rest of it, and one in the last second ends the interval, although
    the comment at line 123 says that the result is then positive.
20. `keep.c` reports the end of `readline` for whatever reason: a line too long
    and a failed `recv` are told apart by `errno` only, as in `Lines`.

## Proofs

Proved by TLAPS for every value of the constants, from the assumptions named in
the modules.

*Thread pool* (assumptions `ArgumentsAccepted`, which is the argument check of
`threadpool_create`, `ThreadsDistinct`, `TaskAssumption`, `FaultAssumption`).
The argument goes in layers, each inductive relative to the ones before it:

1. `Types`, the type invariant with one strengthening: while `threadpool_create`
   is between `pthread_create` and its increment, `thread_count` is still below
   `ThreadCount` (`CountType`).
2. `RingIsFifo` is inductive with `Types`: the slots from `head` hold the tasks
   `taken + 1 .. submitted` and `tail` is the slot after them.
3. `LifeInv`, a conjunction that is inductive only as a whole: which threads
   exist (`BirthInv`), that nobody else knows the pool until it is created
   (`CreateInv`), that a worker that left had to leave and still would
   (`ExitInv`), that one destroyer joins and the joined threads are gone
   (`JoinInv`), who may use which block (`HeapInv`), mutual exclusion
   (`MutexInv`), and that a destroyer meets a freed pool only if another one has
   returned (`OvertakenInv`). `NoUseAfterFree`, `LockGivenBack`, `GracefulDrains`,
   `NoSleeperAtShutdown` and `ShutdownIsFinal` follow, with any number of callers
   of `threadpool_destroy` and any faults.
4. `ExactlyOnce`, from the ring and the life cycle.
5. `StartedIsLive`, strengthened to say what `started` counts while the creator
   is between its steps, by the cardinality of the set of live workers.
6. `WakeupsSuffice`: with a worker asleep there are as many workers awake as
   tasks pending. It is inductive by counting: an accepted task wakes one
   worker, a worker that goes to sleep has seen an empty queue, one that takes
   a task lowers the count.
7. `PoolImplementsTaskService`, the refinement. The abstract `pending` is the
   ring read from `head`, `running` the tasks of the workers inside a task.
   Five actions are steps of the service (`AddAccept`, `WorkerTake`,
   `WorkerReturn`, `DestroyShutdown`, and the one that frees); every other one is
   a stutter (`Unseen`). The ring, the life cycle and `ExactlyOnce` are needed:
   that fewer than `ThreadCount` tasks run is the pigeonhole principle over
   distinct tasks, and that nothing is pending or running at the end is the
   joining of the threads.

*Queues*. Circular queue (`QLenAssumption`): `TypeOK`, and the refinement
`ArrayQueueImplementsFifo`, where the abstract contents are the slots from
`head` to `tail` around the end of the array. Linked queue (the first conjunct of
`LibraryAssumption`: finitely many nodes): `LinkedInv` says that there is a
`Chain`, a sequence of distinct nodes along `next` from `head` to `tail` that is
the whole heap. `EnQueue` lengthens it by a node that is not on it, `DeQueue` and
`free` shorten it at its head; `LinkedListWellFormed` is what it says of the node
pointers, and `LinkedQueueImplementsFifo` the refinement, for any outcome of
`malloc`. The refinement mapping reads the list by a recursive function
(`Reached`) and counts its nodes (`Length`): that both are those of the chain is
shown at the least place where they would differ.

*Transfers of bytes* (`LibraryAssumption`: records and lines are not empty, a
buffer has room for a byte and its end). `TransfersAreExact` holds for all
lengths of records and lines and all sizes of buffers, segments and socket
buffers, with `read`, `recv` and `send` failing at any call. What is on the
wire is a run of successive bytes that ends before the one the sender writes
next (`Run`); so the byte the reader gets next (`Due`) is known from its own
state, and each invariant says which one that is.

* `RecordInv` (`readvrec`): in each of its three calls of `readn` (`InLength`,
  `InRecord`, `InDiscard`) the bytes read so far are those of the current record
  from the place `Base`, where the call began. That the discarding loop ends on
  a record boundary is `reclen` counting down to zero while `Base` goes up.
* `KeepInv` (`readline`): as long as no segment brought bytes of two lines
  (deviation 14), what was copied is the beginning of the next line; a line is
  refused as too long only when it does not fit.
* `FileInv` (`readLine`): of each line the first `FileRoom - 1` bytes, however it
  is cut up; `InLine` and `BetweenLines` are the two ends of a call.
* `ReplyInv` (`TransmitPending`): inside the call the last `buffer` bytes that the
  client got are the first ones of the response. A new call begins again at the
  first byte (deviation 10), which is why it speaks of the last ones; before that
  (`~again`) they are all there is (`Once`).

*Poll server* (`FdsAssumption`, `BoundsAssumption`, `PollAssumption`: at least
one reserved slot and two others). `TableAgrees` is not inductive. `PollInv` adds
that descriptors are distinct between slots and between entries of the poll array
(`OwnersOK`, `WatchOK`), and `CountOK`, what the counter really does:
`connectionsActive` is 0 or 1, is 0 whenever the server polls, and 0 after
`TransmitPendingLoop` has passed slot 0, which is reserved and free. The
operations are lemmas about tables as records (`EstablishKeepsTable`,
`CloseFree`, ...), so that each action cites one. `FreeEntry` finds room in the
poll array by counting. `PollNeverEvicts` follows: the eviction in
`NewConnection` is dead code.

*Select server* (the same, with `SelectAssumption`: at least two reserved slots;
the code has four). `SelectInv` needs a more careful `CountOK`: the counter
survives a round only while all connections are new, because
`TransmitPendingLoop` uses it up at slots 0 and 1. With one reserved slot it would
be too high after two accepts in a row, and the do-while that started a hook
thread could close the connection under it.
`HookOwnsSlot` depends on it: neither `RunUnrecoverable` nor `TransmitPending`
tests `clientCallbackRunningNow` before it closes, and only the counter, which
free slots have used up by then (deviations 7 and 9), keeps them from closing a
connection on which a hook thread works. A repair of the counter would have to
add the test.

*Workers of the million-connection server* (`WorkerConstants`). `ConnInv`: an
open descriptor is in one queue, at one place, or in one epoll set (`Owned`); an
item is fresh from the reset in `client_closefun` to its next registration
(`ItemsOK`); a `TIMER` has exactly one entry for each registered descriptor that
is not between the removal of its timer and its end (`TimersOK`); nobody
oversleeps. Ownership makes the rest inductive: the
three statements of `client_closefun` interleave with other workers, and it is
because the descriptor is still open until the last one that no other worker has
it. The bags of `TIMER` are described by a function from descriptors to times, so
that adding, removing and expiring are changes of that function.

*Accept and dispatch* (`DispatchConstants`, `WholeCapAssumption`), for both kinds
of sockets at once: `StepOf(cap, g, err)` is a step of either.
`StreamWhole` and `Conserved` are claims up to the first overrun of a send buffer:
the action that moves a batch beyond the end sets `overrun`, after which nothing
steps, so that the proofs carry the bound of the buffer nowhere else.

* `NoLostWakeup` is inductive with `Types`.
* `StreamWhole`: the stream of a channel (delivered, in the socket, in the send
  buffer) is the bytes of a sequence of whole ints (`StreamOfFds`). Each step
  moves bytes inside the stream or appends whole ints to it; division with
  remainder (`DivMod`, `BytesShape`, `BytesConcat`) connects bytes and ints.
* `WholeRegistered`: a worker has registered the whole ints of what was delivered
  and buffers the rest (`Exact`); while sockets take whole ints, buffer and
  socket together hold a whole number of them, so a `recv` that empties the
  socket leaves no rest and the assertion holds.
* `Conserved`: `EachOnce` counts, as 0, 1 or "more", the places of a descriptor
  in the batch, the list, the dispatcher's copy of it and the streams. The sum is
  1 for an accepted descriptor and 0 otherwise. The step that needs care is
  `NextBatch`: while a batch is being sent it is in its stream already and still
  the head of `paccept`, so only the batches behind it count (`Waiting`).

*Daemon* (`DaemonAssumption`): `NoHupLost` is inductive with the types;
`IntervalKept` needs its extension to the steps between two sleeps
(`IntervalEverywhere`). What a sleep loses is the remainder of a division
(`WholeSeconds`); as each sleep cut short inside a second also lowers `unslept`,
there are at most `SLEEP_TIME` of them in an interval.

*Heartbeats* (`BeatAssumption`: the times are positive, neither a message nor
the return of `select` is late by more than T2). `BeatsNoFalseAlarm` and
`BeatsNoticedInTime` hold for both programs and all such times, intervals and
lengths of the message. `NoticedInTime` is arithmetic: while a side is up, the time
since it heard anything and the rest of its timeout are bounded by the
heartbeats missed (`BeatQuiet`). `NoFalseAlarm` needs all clocks at once:

* Client (`BeatClient`): let `e` be the time since its oldest unanswered
  heartbeat. The heartbeat or its answer is still under way, so `e` is at most
  `2 * Delay`, which is below `3 * T2`.
* Server (`BeatServer`): the time it has left exceeds what the first byte under
  way to it still needs, or, with none under way, the rest of the client's
  timeout and the way of the next heartbeat; `Residue + 2 * Delay < 4 * T2`.
* `BeatFrames`: the parts of a message arrive in order, so the last part on its
  way belongs to a whole message.
* In `heartBeat2` a client inside `recv` sends no heartbeats (deviation 15).
  `Beat2Ends` shows that it is there only when the server is down; unless the
  network was cut before the end of `chb` arrived (`Deaf`) the end is there or on
  its way (`Hears`), and `Beat2Quiet` that it then hears it in time.

*Epoll server* (`EpollAssumption`, and `ClientsAssumption`: the queue has room
for as many tasks as the list has entries, `MAX_CONNECT` and `QUEUE` being both 256
in `op_epoll.h`, and a message of a polite client is shorter than a line).
`ListsAgreeAlways` treats the two kinds of clients.

* Polite ones: `PoliteInv` has three phases. `Serving`, where the list, the set of
  epoll and the open connections agree; `Accepting`, where the new client is
  waiting, has its event, or is in the list and not yet counted; `Leaving`, where
  the event of the client that left is on its way through the loop, the queue
  and one thread, which takes it out of the set, shifts the list and shortens
  it. While serving, an event entry is claimed once by the loop, the queue or a
  thread (`Claimed`), and a client has unread data exactly if it has an edge or a
  claimed entry (`DataOK`): without this a thread could meet a descriptor with
  nothing to read and deregister it (deviation 12). `del_clilist` is a fold over
  the list: `ShiftedOnce` says that it removes a descriptor which is in it
  once.  That the server neither exits nor leaves the list follows from counting:
  connections are numbered as they come (`NextFd`) and polite clients stop at both
  limits.
* Busy ones: `BusyInv`, that for each edge and each event of the listening
  socket there is a connection to accept, for any number of entries and
  descriptors and whatever the task does to the rest; so `accept` fails for want
  of descriptors only. Nothing more is true of them.

Only model-checked:

* all liveness properties: fairness is out of the prover's reach;
* `IsRemainder` of `crc16.c`, the value of a recursive division over bits: the
  prover's arithmetic has no bitwise operators, and the module is recursive.

These are all: every other safety property of the passing runs is a theorem.
Where the value of a recursive definition matters (`Reached` of the linked queue,
`Shifted` of the list of clients) it is that of a recursive function, and the
proof takes the least number at which the claim would fail (`Least`), since the
library's induction rules cannot be instantiated; the lemmas about runs of bytes
are proved in the same way.

Proved and not checked by a run of its own: `LifeInv`, `TypeOK` of the array
queue, `PollNeverEvicts`.

## Not modelled

Logging, formatting, addresses and options of sockets; `client_writefun` and
`fdsend_writefun`, which nothing calls; the failure of `epoll_ctl` (the server
exits); descriptor 0 returned by `accept`.

In the poll server the callback of a connection is never set (`switch
(serverSocket)` compares a descriptor with a port number), so its hooks and the
states they would set do not occur.  `select/serverModel.c` does not compile as
it is: some names are spelled in two ways, and each pair is one name in the
model; the same holds for `hupReceive` and `hupReceived` in `daemon_SIGHUP.c`.
`malloc(sizeof(struct pollfd) * MAX_WATCHEDFD)` in the poll server allocates
too little because the macro has no parentheses; the model takes the array as
large enough.  A second write to a reset connection raises SIGPIPE: the poll
and select servers end there in the model, the epoll server's model does not
follow it.  In `Daemon` the configuration file always exists.  The client of
`heartBeat1` writes the type of a heartbeat into the buffer it is receiving a
message into (`hb_client.c:31,40`); it never looks at a message it received,
and the model keeps only how much of one has come.  `sendfdBuff` has `MAX_CPU`
elements and is indexed by descriptor; the model takes the descriptors of the
socket pairs as in range, which they are up to some sixty processors.
`threadpool_free` frees the arrays before it takes the lock for the last time;
no worker lives then, and the model frees in one step.  The heartbeat servers
send nothing but echoes, as in the code; if they also sent data, a client that
hears it would send no heartbeats.

Left out altogether, with the reason, in `PROJECT.json`: the load client, whose
live part is a subset of the server's event loop; the socket constructors of
`etcp.c`, `becomeDaemon`, the serial port, and the demonstration programs, which
are sequences of system calls without state of their own; `get_num`, `crc32`
(its values exceed TLC's integers), and the binary tree and list, which do not
compile and whose recursion is textbook.

## Plan

Every safety property of the runs but the one of the CRC is proved. What is left:

1. `IsRemainder`, as a definition over sequences of bits instead of numbers,
   which a proof by least counterexample could reach.
2. The liveness properties, for which the invariants proved here are the first
   half: a rank for each of them would be an action property, and the fairness
   argument from it stays outside.
3. The load client of the million-connection server, as one more user of
   `Timers`.
