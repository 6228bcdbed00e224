------------------------------ MODULE ThreadPool ------------------------------
(***************************************************************************)
(* The thread pool of IOModels/epoll/epollTcpServer (src/threadpool.c).    *)
(*                                                                         *)
(* Threads of the model:                                                   *)
(*   - the workers 0 .. ThreadCount-1, each running threadpool_thread;     *)
(*   - the Owner, which runs threadpool_create and later calls             *)
(*     threadpool_destroy, and any other thread of Destroyers that also    *)
(*     calls threadpool_destroy;                                           *)
(*   - the Clients, which call threadpool_add from outside the pool.  A    *)
(*     running task may call threadpool_add as well, from its worker.      *)
(*                                                                         *)
(* All fields of the pool are read and written with pool->lock held, apart *)
(* from the thread_count/started increments of threadpool_create and the   *)
(* reads after the joins, which are steps of their own here.  A critical   *)
(* section is two steps: taking the lock, and its body up to the unlock    *)
(* (or up to pthread_cond_wait, which releases the lock and blocks in one  *)
(* step).                                                                  *)
(*                                                                         *)
(* pthread_mutex_lock/unlock, pthread_cond_signal/broadcast and            *)
(* pthread_join on valid objects do not fail.  What may fail (malloc,      *)
(* pthread_mutex_init, pthread_cond_init, pthread_create) is the constant  *)
(* Faults.                                                                 *)
(***************************************************************************)
EXTENDS Integers, Sequences, FiniteSets

CONSTANTS
  ThreadCount,  \* argument thread_count of threadpool_create
  QueueSize,    \* argument queue_size of threadpool_create
  Clients,      \* threads outside the pool that call threadpool_add
  Destroyers,   \* threads that call threadpool_destroy
  Owner,        \* the destroyer that also called threadpool_create
  NoThread,     \* holder of a free mutex
  NoTask,       \* content of a queue slot never written
  Faults,       \* the calls of threadpool_create that may fail
  MaxCalls      \* bound on the calls of threadpool_add in a behaviour

MAX_THREADS == 64
MAX_QUEUE == 65536

Workers == 0 .. ThreadCount - 1
Threads == Workers \cup Clients \cup Destroyers

(***************************************************************************)
(* The argument check at the head of threadpool_create: any other argument *)
(* makes it return NULL without touching anything.                         *)
(***************************************************************************)
ASSUME ArgumentsAccepted ==
  /\ ThreadCount \in Nat /\ 0 < ThreadCount /\ ThreadCount <= MAX_THREADS
  /\ QueueSize \in Nat /\ 0 < QueueSize /\ QueueSize <= MAX_QUEUE

ASSUME ThreadsDistinct ==
  /\ Owner \in Destroyers
  /\ Clients \cap Destroyers = {}
  /\ Clients \cap Nat = {} /\ Destroyers \cap Nat = {}
  /\ NoThread \notin Threads

ASSUME TaskAssumption == MaxCalls \in Nat /\ NoTask \notin Nat

ASSUME FaultAssumption ==
  Faults \subseteq {"pool", "threads", "queue", "mutex", "cond", "thread"}

(***************************************************************************)
(* threadpool_shutdown_t, and 0 for a pool in service.                     *)
(***************************************************************************)
immediate_shutdown == 1
graceful_shutdown == 2

threadpool_graceful == 1       \* the only bit of the flags argument

VARIABLES
  heap,          \* blocks allocated: a subset of {"pool", "threads", "queue"}
  mutexInit,     \* pool->lock is initialised
  condInit,      \* pool->notify is initialised
  queue,         \* pool->queue
  head, tail, count, shutdown, started, thread_count,   \* fields of the pool
  lock,          \* the thread that holds pool->lock, or NoThread
  pc,            \* where each thread is
  wtask,         \* the local variable task of each worker
  joined,        \* the loop index i of each destroyer's joins
  created,       \* what threadpool_create did: "no", "ready", "failed"
  calls,         \* calls of threadpool_add made
  submitted,     \* tasks accepted so far; the tasks are numbered 1, 2, ...
  taken,         \* tasks taken from the queue so far
  done           \* the tasks whose function has returned

mem == <<heap, mutexInit, condInit>>
ring == <<queue, head, tail, count>>
counters == <<started, thread_count>>
pool == <<ring, shutdown, counters>>
locals == <<wtask, joined, created>>
history == <<calls, submitted, taken, done>>
vars == <<mem, pool, lock, pc, locals, history>>

(***************************************************************************)
(* Program counters.  A worker is "unborn" before pthread_create, "start"  *)
(* at the head of its loop, "waiting" in pthread_cond_wait, "woken" when   *)
(* it must re-acquire the lock there, "held" with the lock, "run" in a     *)
(* task, "dead" after pthread_exit.  "adding" and "addheld" are            *)
(* threadpool_add before and after it has the lock.  The owner is "hung"   *)
(* in the lock of a mutex that was never initialised, a destroyer "stale"  *)
(* in the lock of a mutex that is gone: what the call does is undefined,   *)
(* and the thread is not followed any further.                             *)
(***************************************************************************)
WorkerPC == {"unborn", "start", "waiting", "woken", "held", "run", "adding",
             "addheld", "dead"}
ClientPC == {"idle", "adding", "addheld"}
DestroyerPC == {"create", "err", "hung", "spawn", "count", "null", "idle",
                "lock", "crit", "join", "done", "stale"}

Init ==
  /\ heap = {} /\ mutexInit = FALSE /\ condInit = FALSE
  /\ queue = [i \in 0 .. QueueSize - 1 |-> NoTask]
  /\ head = 0 /\ tail = 0 /\ count = 0
  /\ shutdown = 0 /\ started = 0 /\ thread_count = 0
  /\ lock = NoThread
  /\ pc = [t \in Threads |-> IF t \in Workers THEN "unborn"
                             ELSE IF t = Owner THEN "create" ELSE "idle"]
  /\ wtask = [w \in Workers |-> NoTask]
  /\ joined = [d \in Destroyers |-> 0]
  /\ created = "no"
  /\ calls = 0 /\ submitted = 0 /\ taken = 0 /\ done = {}

-------------------------------------------------------------------------------
(***************************************************************************)
(* threadpool_free: with pool->threads allocated it frees both arrays, the *)
(* mutex, the condition variable and the pool; otherwise only the pool.    *)
(***************************************************************************)
AfterFree == IF "threads" \in heap THEN {} ELSE heap \ {"pool"}

threadpool_free ==
  IF started > 0
  THEN UNCHANGED mem
  ELSE /\ heap' = AfterFree
       /\ mutexInit' = (mutexInit /\ "threads" \notin heap)
       /\ condInit' = (condInit /\ "threads" \notin heap)

(***************************************************************************)
(* threadpool_create up to its loop.  pthread_cond_init is called only     *)
(* when pthread_mutex_init succeeded; any failure leads to the label err.  *)
(***************************************************************************)
CreateAlloc ==
  /\ pc[Owner] = "create"
  /\ \/ /\ "pool" \in Faults
        /\ pc' = [pc EXCEPT ![Owner] = "null"]
        /\ created' = "failed"
        /\ UNCHANGED mem
     \/ \E failed \in SUBSET (Faults \ {"pool", "thread"}) :
          /\ heap' = {"pool", "threads", "queue"} \ failed
          /\ mutexInit' = ("mutex" \notin failed)
          /\ condInit' = (failed \cap {"mutex", "cond"} = {})
          /\ pc' = [pc EXCEPT ![Owner] = IF failed = {} THEN "spawn" ELSE "err"]
          /\ UNCHANGED created
  /\ UNCHANGED <<pool, lock, wtask, joined, history>>

\* The label err: the pool is freed and NULL returned.  With pool->threads
\* allocated threadpool_free locks the mutex, initialised or not; CreateHang is
\* the case where a lock that is not initialised does not come back.
CreateErr ==
  /\ pc[Owner] = "err"
  /\ threadpool_free
  /\ pc' = [pc EXCEPT ![Owner] = "null"]
  /\ created' = "failed"
  /\ UNCHANGED <<pool, lock, wtask, joined, history>>

CreateHang ==
  /\ pc[Owner] = "err"
  /\ "threads" \in heap /\ ~mutexInit
  /\ pc' = [pc EXCEPT ![Owner] = "hung"]
  /\ UNCHANGED <<mem, pool, lock, locals, history>>

\* pthread_create of worker i; i equals thread_count at the head of the loop.
CreateThread ==
  /\ pc[Owner] = "spawn"
  /\ thread_count < ThreadCount
  /\ pc' = [pc EXCEPT ![Owner] = "count", ![thread_count] = "start"]
  /\ UNCHANGED <<mem, pool, lock, locals, history>>

\* The two increments that follow it, made without the lock.
CreateCount ==
  /\ pc[Owner] = "count"
  /\ thread_count' = thread_count + 1
  /\ started' = started + 1
  /\ pc' = [pc EXCEPT ![Owner] = "spawn"]
  /\ UNCHANGED <<mem, ring, shutdown, lock, locals, history>>

\* pthread_create failed: threadpool_destroy(pool, 0), then NULL is returned.
CreateFail ==
  /\ pc[Owner] = "spawn"
  /\ thread_count < ThreadCount
  /\ "thread" \in Faults
  /\ created' = "failed"
  /\ pc' = [pc EXCEPT ![Owner] = "lock"]
  /\ UNCHANGED <<mem, pool, lock, wtask, joined, history>>

CreateReturn ==
  /\ pc[Owner] = "spawn"
  /\ thread_count = ThreadCount
  /\ created' = "ready"
  /\ pc' = [pc EXCEPT ![Owner] = "idle"]
  /\ UNCHANGED <<mem, pool, lock, wtask, joined, history>>

-------------------------------------------------------------------------------
(***************************************************************************)
(* threadpool_add, called by a client or by a running task.  The callers'  *)
(* side of the interface: no thread outside the pool is in threadpool_add  *)
(* once threadpool_destroy has been called.                                *)
(***************************************************************************)
AddCall(a) ==
  /\ \/ a \in Clients /\ pc[a] = "idle" /\ created = "ready"
        /\ \A d \in Destroyers : pc[d] = "idle"
     \/ a \in Workers /\ pc[a] = "run"
  /\ calls < MaxCalls
  /\ calls' = calls + 1
  /\ pc' = [pc EXCEPT ![a] = "adding"]
  /\ UNCHANGED <<mem, pool, lock, locals, submitted, taken, done>>

AddLock(a) ==
  /\ pc[a] = "adding"
  /\ lock = NoThread
  /\ lock' = a
  /\ pc' = [pc EXCEPT ![a] = "addheld"]
  /\ UNCHANGED <<mem, pool, locals, history>>

\* Where a caller of threadpool_add goes on after the return.
AddReturn(a) == IF a \in Workers THEN "run" ELSE "idle"

\* Seeded fault: the index sticks at the last slot.
NextIndexStuck(i) == IF i + 1 = QueueSize THEN i ELSE i + 1

\* The index after i in the circular queue.
NextIndex(i) == IF i + 1 = QueueSize THEN 0 ELSE i + 1

\* threadpool_queue_full or threadpool_shutdown.
CannotAdd == count = QueueSize \/ shutdown # 0

\* Seeded fault: the error path returns with the lock held.
AddRejectKeeps(a) ==
  /\ pc[a] = "addheld" /\ CannotAdd
  /\ pc' = [pc EXCEPT ![a] = AddReturn(a)]
  /\ UNCHANGED <<mem, pool, lock, locals, history>>

AddReject(a) ==
  /\ pc[a] = "addheld"
  /\ CannotAdd
  /\ lock' = NoThread
  /\ pc' = [pc EXCEPT ![a] = AddReturn(a)]
  /\ UNCHANGED <<mem, pool, locals, history>>

Waiting == {w \in Workers : pc[w] = "waiting"}

\* Seeded fault: nobody is signalled.
SignalNobody(a, next) == pc' = [pc EXCEPT ![a] = next]

\* pthread_cond_signal by thread a, which then continues at next.
SignalThen(a, next) ==
  IF Waiting = {}
  THEN pc' = [pc EXCEPT ![a] = next]
  ELSE \E w \in Waiting : pc' = [pc EXCEPT ![a] = next, ![w] = "woken"]

\* The task is queued at tail and one waiting worker is signalled.
AddAccept(a) ==
  /\ pc[a] = "addheld"
  /\ ~CannotAdd
  /\ queue' = [queue EXCEPT ![tail] = submitted + 1]
  /\ tail' = NextIndex(tail)
  /\ count' = count + 1
  /\ submitted' = submitted + 1
  /\ lock' = NoThread
  /\ SignalThen(a, AddReturn(a))
  /\ UNCHANGED <<mem, head, shutdown, counters, locals, calls, taken, done>>

-------------------------------------------------------------------------------
(***************************************************************************)
(* threadpool_thread.                                                      *)
(***************************************************************************)
\* pthread_mutex_lock at the head of the loop, or the re-acquisition inside
\* pthread_cond_wait.
WorkerLock(w) ==
  /\ pc[w] \in {"start", "woken"}
  /\ lock = NoThread
  /\ lock' = w
  /\ pc' = [pc EXCEPT ![w] = "held"]
  /\ UNCHANGED <<mem, pool, locals, history>>

\* Seeded fault: the predicate is not tested again after a wakeup.
NothingToDoUntested == pc # pc

\* The predicate of the loop around pthread_cond_wait.
NothingToDo == count = 0 /\ shutdown = 0

\* Nothing to do: pthread_cond_wait.
WorkerWait(w) ==
  /\ pc[w] = "held"
  /\ NothingToDo
  /\ lock' = NoThread
  /\ pc' = [pc EXCEPT ![w] = "waiting"]
  /\ UNCHANGED <<mem, pool, locals, history>>

\* pthread_cond_wait may return without a signal.
SpuriousWakeup(w) ==
  /\ pc[w] = "waiting"
  /\ pc' = [pc EXCEPT ![w] = "woken"]
  /\ UNCHANGED <<mem, pool, lock, locals, history>>

\* Seeded fault: a graceful shutdown does not wait for the queue to drain.
MustExitAtOnce == shutdown # 0

\* The loop is left: immediate shutdown, or graceful and nothing pending.
MustExit ==
  \/ shutdown = immediate_shutdown
  \/ shutdown = graceful_shutdown /\ count = 0

\* The task at head is taken and the lock released.
WorkerTake(w) ==
  /\ pc[w] = "held"
  /\ ~NothingToDo
  /\ ~MustExit
  /\ wtask' = [wtask EXCEPT ![w] = queue[head]]
  /\ head' = NextIndex(head)
  /\ count' = count - 1
  /\ taken' = taken + 1
  /\ lock' = NoThread
  /\ pc' = [pc EXCEPT ![w] = "run"]
  /\ UNCHANGED <<mem, queue, tail, shutdown, counters, joined, created, calls, submitted, done>>

\* The function of the task returns.
WorkerReturn(w) ==
  /\ pc[w] = "run"
  /\ done' = done \cup {wtask[w]}
  /\ pc' = [pc EXCEPT ![w] = "start"]
  /\ UNCHANGED <<mem, pool, lock, locals, calls, submitted, taken>>

\* Seeded fault: the thread exits without counting itself out.
WorkerExitUncounted(w) ==
  /\ pc[w] = "held" /\ ~NothingToDo /\ MustExit
  /\ lock' = NoThread
  /\ pc' = [pc EXCEPT ![w] = "dead"]
  /\ UNCHANGED <<mem, pool, locals, history>>

\* The worker leaves its loop, started is decremented and the thread exits.
WorkerExit(w) ==
  /\ pc[w] = "held"
  /\ ~NothingToDo
  /\ MustExit
  /\ started' = started - 1
  /\ lock' = NoThread
  /\ pc' = [pc EXCEPT ![w] = "dead"]
  /\ UNCHANGED <<mem, ring, shutdown, thread_count, locals, history>>

-------------------------------------------------------------------------------
(***************************************************************************)
(* threadpool_destroy, called while the pool is there.                     *)
(***************************************************************************)
DestroyCall(d) ==
  /\ pc[d] = "idle"
  /\ created = "ready"
  /\ "pool" \in heap
  /\ \A c \in Clients : pc[c] = "idle"
  /\ pc' = [pc EXCEPT ![d] = "lock"]
  /\ UNCHANGED <<mem, pool, lock, locals, history>>

DestroyLock(d) ==
  /\ pc[d] = "lock"
  /\ mutexInit
  /\ lock = NoThread
  /\ lock' = d
  /\ pc' = [pc EXCEPT ![d] = "crit"]
  /\ UNCHANGED <<mem, pool, locals, history>>

\* The same call of pthread_mutex_lock, entered or still blocked when another
\* destroyer has destroyed the mutex and freed the pool.
DestroyLockStale(d) ==
  /\ pc[d] = "lock"
  /\ ~mutexInit
  /\ pc' = [pc EXCEPT ![d] = "stale"]
  /\ UNCHANGED <<mem, pool, lock, locals, history>>

\* Seeded fault: a shutdown already under way is not noticed.
AlreadyShuttingDownUnnoticed == pc # pc

AlreadyShuttingDown == shutdown # 0

\* Already shutting down: threadpool_shutdown is returned, and the function
\* is left with the lock held.
DestroyAgain(d) ==
  /\ pc[d] = "crit"
  /\ AlreadyShuttingDown
  /\ pc' = [pc EXCEPT ![d] = "done"]
  /\ UNCHANGED <<mem, pool, lock, locals, history>>

\* The flags of a call; the call in threadpool_create passes 0.
DestroyFlags == IF created = "ready" THEN {0, threadpool_graceful} ELSE {0}

\* Seeded fault: one worker is woken instead of all.
BroadcastOne(d, next) == SignalThen(d, next)

\* Every waiting worker is woken (pthread_cond_broadcast), the rest stay.
BroadcastThen(d, next) ==
  pc' = [t \in Threads |-> IF t = d THEN next
                           ELSE IF pc[t] = "waiting" THEN "woken" ELSE pc[t]]

DestroyShutdown(d) ==
  /\ pc[d] = "crit"
  /\ ~AlreadyShuttingDown
  /\ \E flags \in DestroyFlags :
       shutdown' = IF flags = threadpool_graceful THEN graceful_shutdown
                   ELSE immediate_shutdown
  /\ BroadcastThen(d, "join")
  /\ lock' = NoThread
  /\ joined' = [joined EXCEPT ![d] = 0]
  /\ UNCHANGED <<mem, ring, counters, wtask, created, history>>

\* pthread_join of the next worker.
DestroyJoin(d) ==
  /\ pc[d] = "join"
  /\ joined[d] < thread_count
  /\ pc[joined[d]] = "dead"
  /\ joined' = [joined EXCEPT ![d] = @ + 1]
  /\ UNCHANGED <<mem, pool, lock, pc, wtask, created, history>>

\* Seeded fault: the last worker is not joined.
DestroyFreeEarly(d) ==
  /\ pc[d] = "join"
  /\ joined[d] + 1 >= thread_count
  /\ lock = NoThread
  /\ heap' = AfterFree
  /\ mutexInit' = FALSE /\ condInit' = FALSE
  /\ pc' = [pc EXCEPT ![d] = "done"]
  /\ UNCHANGED <<pool, lock, locals, history>>

\* threadpool_free, which takes the lock "just in case" before destroying it.
DestroyFree(d) ==
  /\ pc[d] = "join"
  /\ joined[d] = thread_count
  /\ started > 0 \/ lock = NoThread
  /\ threadpool_free
  /\ pc' = [pc EXCEPT ![d] = "done"]
  /\ UNCHANGED <<pool, lock, locals, history>>

-------------------------------------------------------------------------------
CreateStep == \/ CreateAlloc \/ CreateErr \/ CreateHang \/ CreateThread \/ CreateCount
              \/ CreateFail \/ CreateReturn

AddStep(a) == AddLock(a) \/ AddReject(a) \/ AddAccept(a)

WorkerStep(w) == \/ WorkerLock(w) \/ WorkerWait(w) \/ WorkerTake(w)
                 \/ WorkerReturn(w) \/ WorkerExit(w)

DestroyStep(d) == \/ DestroyLock(d) \/ DestroyLockStale(d) \/ DestroyAgain(d)
                  \/ DestroyShutdown(d) \/ DestroyJoin(d) \/ DestroyFree(d)

\* A destroyer that has returned still holds the lock.
LockKept(d) == pc[d] = "done" /\ lock = d

\* The end of a run: the pool is gone, or a thread is in a lock it never gets,
\* because the mutex is not initialised or because a destroyer kept it.
Finished ==
  /\ \/ "pool" \notin heap /\ pc[Owner] # "create"
     \/ pc[Owner] = "hung"
     \/ \E d \in Destroyers : LockKept(d)
  /\ UNCHANGED vars

Next ==
  \/ CreateStep
  \/ \E a \in Clients \cup Workers : AddCall(a) \/ AddStep(a)
  \/ \E w \in Workers : WorkerStep(w) \/ SpuriousWakeup(w)
  \/ \E d \in Destroyers : DestroyCall(d) \/ DestroyStep(d)
  \/ Finished

Spec == Init /\ [][Next]_vars

(***************************************************************************)
(* Fairness: a thread that can run does run, and a task returns.  The      *)
(* mutex is not fair: when it is free some worker that wants it gets it,   *)
(* not a particular one.  Nothing obliges a client to call.  Wakeups       *)
(* without a signal happen only finitely often, as otherwise sleepers      *)
(* could keep an unfair mutex from everybody else for ever.                *)
(***************************************************************************)
Fairness ==
  /\ WF_vars(CreateStep)
  /\ WF_vars(\E w \in Workers : WorkerLock(w))
  /\ \A a \in Clients \cup Workers : WF_vars(AddStep(a))
  /\ \A w \in Workers : WF_vars(WorkerWait(w) \/ WorkerTake(w)
                                \/ WorkerReturn(w) \/ WorkerExit(w))
  /\ \A d \in Destroyers : WF_vars(DestroyStep(d))

FinitelySpurious == <>[][~\E w \in Workers : SpuriousWakeup(w)]_vars

FairSpec == Spec /\ Fairness /\ FinitelySpurious

-------------------------------------------------------------------------------
(***************************************************************************)
(* Properties.                                                             *)
(***************************************************************************)
Critical == {"held", "addheld", "crit"}
Live == {w \in Workers : pc[w] \notin {"unborn", "dead"}}
InTask == {w \in Workers : pc[w] \in {"run", "adding", "addheld"}}

\* The k-th slot after head in the circular queue.
Slot(k) == IF head + k >= QueueSize THEN head + k - QueueSize ELSE head + k

MemType ==
  /\ heap \subseteq {"pool", "threads", "queue"}
  /\ mutexInit \in BOOLEAN /\ condInit \in BOOLEAN

PoolType ==
  /\ queue \in [0 .. QueueSize - 1 -> Nat \cup {NoTask}]
  /\ head \in 0 .. QueueSize - 1 /\ tail \in 0 .. QueueSize - 1
  /\ count \in 0 .. QueueSize
  /\ shutdown \in {0, immediate_shutdown, graceful_shutdown}
  /\ started \in Int /\ thread_count \in 0 .. ThreadCount

PcType ==
  /\ pc \in [Threads -> WorkerPC \cup ClientPC \cup DestroyerPC]
  /\ \A w \in Workers : pc[w] \in WorkerPC
  /\ \A c \in Clients : pc[c] \in ClientPC
  /\ \A d \in Destroyers : pc[d] \in DestroyerPC

LocalType ==
  /\ lock \in Threads \cup {NoThread}
  /\ wtask \in [Workers -> Nat \cup {NoTask}]
  /\ joined \in [Destroyers -> 0 .. ThreadCount]
  /\ created \in {"no", "ready", "failed"}
  /\ calls \in Nat /\ submitted \in Nat /\ taken \in Nat
  /\ done \subseteq Nat \cup {NoTask}

CountType == pc[Owner] = "count" => thread_count < ThreadCount

Types == MemType /\ PoolType /\ PcType /\ LocalType /\ CountType

\* Type invariant.  The indices of the queue stay inside the array that
\* threadpool_create allocated, and the counters of the pool stay in range.
TypeOK ==
  /\ Types
  /\ started \in 0 .. ThreadCount
  /\ done \subseteq 1 .. submitted

\* The circular queue of threadpool_add and threadpool_thread holds exactly
\* the accepted tasks not yet taken, oldest at head, and tail is the slot
\* after the youngest: no task is overwritten, skipped or reordered when the
\* indices wrap or the queue is full.
RingIsFifo ==
  /\ count = submitted - taken
  /\ tail = (IF count = QueueSize THEN head ELSE Slot(count))
  /\ \A k \in 0 .. count - 1 : queue[Slot(k)] = taken + k + 1

\* Every task taken from the queue is run by exactly one worker and finishes
\* at most once; no other task is run (a slot that was never filled, a task
\* already run).
ExactlyOnce ==
  /\ \A v, w \in InTask : v # w => wtask[v] # wtask[w]
  /\ \A w \in InTask : wtask[w] \notin done
  /\ done \cup {wtask[w] : w \in InTask} = 1 .. taken

\* pool->started, incremented by threadpool_create without the lock and
\* decremented by the workers, is the number of threads that are running,
\* which threadpool_free relies on when it refuses to free a pool in use.
StartedIsLive ==
  pc[Owner] # "count" => started = Cardinality(Live)

\* Once threadpool_free has released the pool all three blocks are gone and
\* nobody uses them: no worker, no caller of threadpool_add, and no destroyer
\* unless it is a second one, which called threadpool_destroy too and was still
\* at its first lock when the other one freed the pool.  With one caller of
\* threadpool_destroy, as in the rest of the tree, there is none.
NoUseAfterFree ==
  /\ created # "no" /\ "pool" \notin heap =>
        /\ Live = {}
        /\ \A c \in Clients : pc[c] = "idle"
        /\ \A d \in Destroyers : pc[d] \notin {"crit", "join"}
        /\ \A d \in Destroyers : pc[d] = "lock" =>
             \E e \in Destroyers \ {d} : pc[e] = "done"
        /\ shutdown # 0 => heap = {} /\ ~mutexInit /\ ~condInit
  /\ \A d \in Destroyers : pc[d] = "stale" =>
        "pool" \notin heap /\ \E e \in Destroyers \ {d} : pc[e] = "done"

\* Every path of threadpool_add, threadpool_thread and threadpool_destroy gives
\* the lock back, except that of a second threadpool_destroy that finds the
\* first one at work: it returns threadpool_shutdown with the lock held, and
\* the pool is never freed then.
LockGivenBack ==
  /\ \A t \in Threads : lock = t => pc[t] \in Critical \/ pc[t] = "done"
  /\ \A d \in Destroyers : LockKept(d) =>
        /\ "pool" \in heap
        /\ \E e \in Destroyers \ {d} : pc[e] \in {"join", "done"}

\* threadpool_free relies on it, as its comment says: when pool->threads is
\* allocated the mutex and the condition variable are initialised.  Checked
\* where threadpool_create gives up.
InitialisedWhenFreed ==
  pc[Owner] = "err" /\ "threads" \in heap => mutexInit /\ condInit

\* threadpool_graceful: when the pool has been freed after a graceful
\* shutdown every accepted task has been run to its end.
GracefulDrains ==
  shutdown = graceful_shutdown /\ "pool" \notin heap =>
     done = 1 .. submitted

\* No lost wakeup: while a worker sleeps in pthread_cond_wait there are as
\* many workers awake as tasks pending, although each threadpool_add signals
\* one worker only and a woken worker may find its task gone.
WakeupsSuffice ==
  Waiting # {} => count <= Cardinality(Live \ Waiting)

\* Nobody sleeps through a shutdown: a worker that tested the predicate
\* before threadpool_destroy set the flag is woken, one that tests it later
\* does not wait.
NoSleeperAtShutdown == shutdown # 0 => Waiting = {}

Creating == {"create", "err", "hung", "spawn", "count"}

\* The workers threadpool_create has started are those below thread_count,
\* and the one whose increment is still to come.
BirthInv ==
  /\ \A w \in Workers : pc[w] = "unborn" <=>
       w >= thread_count /\ ~(pc[Owner] = "count" /\ w = thread_count)
  /\ pc[Owner] \in {"create", "err", "hung", "null"} => thread_count = 0 /\ started = 0
  /\ created = "ready" => thread_count = ThreadCount

\* Until threadpool_create returns nobody else knows the pool, so the
\* increments it makes without the lock race with nothing.
CreateInv ==
  /\ pc[Owner] \in Creating <=> created = "no"
  /\ pc[Owner] = "null" => created = "failed"
  /\ created = "no" => shutdown = 0 /\ \A w \in Workers : pc[w] # "dead"
  /\ created # "ready" => \A d \in Destroyers \ {Owner} : pc[d] = "idle"
  /\ created # "ready" => shutdown # graceful_shutdown
  /\ shutdown # 0 => \E d \in Destroyers : pc[d] \in {"join", "done"}
  /\ (\E d \in Destroyers : pc[d] # "idle") => \A c \in Clients : pc[c] = "idle"

\* A worker that is gone had to go, and still would.
ExitInv ==
  /\ \A w \in Workers : pc[w] = "dead" => MustExit
  /\ shutdown # 0 => \A w \in Workers : pc[w] # "waiting"

\* One destroyer at a time is in its joins, and the threads joined are gone.
JoinInv ==
  /\ \A d \in Destroyers : pc[d] = "join" =>
        shutdown # 0 /\ \A i \in 0 .. joined[d] - 1 : pc[i] = "dead"
  /\ \A d, e \in Destroyers : pc[d] = "join" /\ pc[e] = "join" => d = e

\* Who may still use which block.
HeapInv ==
  /\ pc[Owner] = "create" => heap = {}
  /\ pc[Owner] \notin {"create", "err", "hung"} /\ "pool" \in heap =>
        heap = {"pool", "threads", "queue"}
  /\ shutdown = 0 /\ pc[Owner] \notin {"create", "null"} => "pool" \in heap
  /\ \A d \in Destroyers : pc[d] \in {"crit", "join"} => "pool" \in heap
  /\ shutdown # 0 /\ "pool" \notin heap =>
        heap = {} /\ mutexInit = FALSE /\ condInit = FALSE
  /\ created # "no" /\ "pool" \notin heap =>
        \A w \in Workers : pc[w] \in {"unborn", "dead"}

\* A destroyer at its first lock finds the mutex as threadpool_create left it,
\* or another destroyer has freed the pool.
OvertakenInv ==
  /\ pc[Owner] \notin {"create", "err", "hung"} /\ "pool" \in heap => mutexInit
  /\ \A d \in Destroyers : pc[d] = "stale" => "pool" \notin heap
  /\ "pool" \notin heap => \A d \in Destroyers : pc[d] \in {"lock", "stale"} =>
        \E e \in Destroyers \ {d} : pc[e] = "done"

MutexInv == \A t \in Threads : pc[t] \in Critical => lock = t

\* The life of a pool, from threadpool_create to threadpool_free: the
\* inductive invariant from which the absence of uses after the free and the
\* drain of a graceful shutdown follow.
LifeInv == /\ BirthInv /\ CreateInv /\ ExitInv /\ JoinInv /\ HeapInv /\ MutexInv
           /\ OvertakenInv /\ LockGivenBack

\* After the shutdown flag is set it never changes and no task is accepted,
\* whatever running tasks submit.
ShutdownIsFinal ==
  [][shutdown # 0 => shutdown' = shutdown /\ submitted' = submitted]_vars

\* Every accepted task is run, unless the pool is shut down at once.
TaskEventuallyRuns ==
  \A t \in 1 .. MaxCalls :
     submitted >= t ~> t \in done \/ shutdown = immediate_shutdown

\* A shutdown that has begun ends: every worker exits, the joins return and
\* the pool is freed.
ShutdownCompletes == shutdown # 0 ~> "pool" \notin heap

(***************************************************************************)
(* The pool implements TaskService: the pending tasks are read off the     *)
(* circular queue, the running ones off the workers' locals.               *)
(***************************************************************************)
Mode == IF shutdown = 0 THEN "open"
        ELSE IF "pool" \notin heap THEN "closed"
        ELSE IF shutdown = graceful_shutdown THEN "draining" ELSE "stopping"

Pending == [k \in 1 .. count |-> queue[Slot(k - 1)]]
Running == {wtask[w] : w \in InTask}

Service == INSTANCE TaskService WITH
             Capacity <- QueueSize, Servers <- ThreadCount,
             pending <- Pending, running <- Running,
             accepted <- submitted, mode <- Mode

\* The whole pool, seen by its callers, is the bounded FIFO service of
\* TaskService, through every interleaving of threadpool_add,
\* threadpool_thread and threadpool_destroy.
ImplementsTaskService == Service!Spec
===============================================================================
