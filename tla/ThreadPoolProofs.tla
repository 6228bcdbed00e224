--------------------------- MODULE ThreadPoolProofs ---------------------------
(***************************************************************************)
(* Proofs about ThreadPool, for every number of workers, queue size, set   *)
(* of clients and of destroyers, and set of faults.                        *)
(***************************************************************************)
EXTENDS ThreadPool, FiniteSetTheorems, TLAPS

USE DEF CannotAdd, NothingToDo, AlreadyShuttingDown, pool, locals

\* The kinds of threads are disjoint, and a free mutex has no holder.
LEMMA ThreadFacts ==
  /\ \A w \in Workers : w \in Nat /\ w < ThreadCount /\ w \in Threads
                        /\ w \notin Clients /\ w \notin Destroyers
  /\ \A c \in Clients : c \in Threads /\ c \notin Workers /\ c \notin Destroyers
  /\ \A d \in Destroyers : d \in Threads /\ d \notin Workers /\ d \notin Clients
  /\ Owner \in Destroyers
  /\ NoThread \notin Threads
  /\ \A i \in Nat : i < ThreadCount => i \in Workers
BY ArgumentsAccepted, ThreadsDistinct DEF Workers, Threads

\* The locations the actions name, by the kind of thread they belong to.
LEMMA PcFacts ==
  /\ {"unborn", "start", "waiting", "woken", "held", "run", "adding",
      "addheld", "dead"} = WorkerPC
  /\ {"idle", "adding", "addheld"} = ClientPC
  /\ {"create", "err", "hung", "spawn", "count", "null", "idle", "lock", "crit",
      "join", "done", "stale"} = DestroyerPC
BY DEF WorkerPC, ClientPC, DestroyerPC

\* A thread moves to a location of its own kind.
LEMMA MoveOne ==
  ASSUME PcType, NEW a \in Threads, NEW s,
         a \in Workers => s \in WorkerPC,
         a \in Clients => s \in ClientPC,
         a \in Destroyers => s \in DestroyerPC,
         pc' = [pc EXCEPT ![a] = s]
  PROVE  PcType'
BY ThreadFacts DEF PcType, Threads

\* A thread moves and a worker moves with it.
LEMMA MoveTwo ==
  ASSUME PcType, NEW a \in Threads, NEW s, NEW w \in Workers, NEW r \in WorkerPC,
         a # w,
         a \in Workers => s \in WorkerPC,
         a \in Clients => s \in ClientPC,
         a \in Destroyers => s \in DestroyerPC,
         pc' = [pc EXCEPT ![a] = s, ![w] = r]
  PROVE  PcType'
BY ThreadFacts DEF PcType, Threads

LEMMA PcTypeNext == Types /\ [Next]_vars => PcType'
<1> SUFFICES ASSUME Types, [Next]_vars PROVE PcType'
  OBVIOUS
<1>0. PcType
  BY DEF Types
<1>1. CASE CreateStep
  <2>1. CASE CreateThread
    <3>1. thread_count \in Workers
      BY <2>1, ThreadFacts DEF CreateThread, Types, PoolType
    <3> QED BY <1>0, <2>1, <3>1, MoveTwo, ThreadFacts, PcFacts DEF CreateThread
  <2>2. PICK s \in {"null", "spawn", "err", "hung", "count", "lock", "idle"} :
              CreateThread \/ pc' = [pc EXCEPT ![Owner] = s]
    BY <1>1 DEF CreateStep, CreateAlloc, CreateErr, CreateHang, CreateCount, CreateFail,
                CreateReturn
  <2> QED BY <1>0, <2>1, <2>2, MoveOne, ThreadFacts, PcFacts
<1>2. ASSUME NEW a \in Clients \cup Workers, AddCall(a) \/ AddStep(a)
      PROVE  PcType'
  <2>1. a \in Threads /\ a \notin Destroyers
    BY ThreadFacts
  <2>2. AddReturn(a) = IF a \in Workers THEN "run" ELSE "idle"
    BY DEF AddReturn
  <2>3. CASE AddAccept(a)
    <3>1. CASE Waiting = {}
      BY <1>0, <2>1, <2>2, <2>3, <3>1, MoveOne, ThreadFacts, PcFacts
      DEF AddAccept, SignalThen
    <3>2. CASE Waiting # {}
      <4>1. PICK w \in Waiting : pc' = [pc EXCEPT ![a] = AddReturn(a), ![w] = "woken"]
        BY <2>3, <3>2 DEF AddAccept, SignalThen
      <4>2. w \in Workers /\ w # a
        BY <2>3 DEF Waiting, AddAccept
      <4> QED BY <1>0, <2>1, <2>2, <4>1, <4>2, MoveTwo, ThreadFacts, PcFacts
    <3> QED BY <3>1, <3>2
  <2>4. CASE AddCall(a) \/ AddLock(a) \/ AddReject(a)
    BY <1>0, <2>1, <2>2, <2>4, MoveOne, ThreadFacts, PcFacts
    DEF AddCall, AddLock, AddReject
  <2> QED BY <1>2, <2>3, <2>4 DEF AddStep
<1>3. ASSUME NEW w \in Workers, WorkerStep(w) \/ SpuriousWakeup(w)
      PROVE  PcType'
  <2>1. PICK s \in WorkerPC : pc' = [pc EXCEPT ![w] = s]
    BY <1>3, PcFacts DEF WorkerStep, WorkerLock, WorkerWait, WorkerTake, WorkerReturn,
                WorkerExit, SpuriousWakeup
  <2> QED BY <1>0, <2>1, MoveOne, ThreadFacts
<1>4. ASSUME NEW d \in Destroyers, DestroyCall(d) \/ DestroyStep(d)
      PROVE  PcType'
  <2>1. CASE DestroyShutdown(d)
    BY <1>0, <2>1, ThreadFacts, PcFacts
    DEF DestroyShutdown, BroadcastThen, PcType
  <2>2. CASE DestroyJoin(d)
    BY <1>0, <2>2 DEF DestroyJoin, PcType
  <2>3. CASE \/ DestroyCall(d) \/ DestroyLock(d) \/ DestroyLockStale(d) \/ DestroyAgain(d)
             \/ DestroyFree(d)
    BY <1>0, <2>3, MoveOne, ThreadFacts, PcFacts
    DEF DestroyCall, DestroyLock, DestroyLockStale, DestroyAgain, DestroyFree
  <2> QED BY <1>4, <2>1, <2>2, <2>3 DEF DestroyStep
<1>5. CASE UNCHANGED vars
  BY <1>0, <1>5 DEF vars, PcType
<1> QED BY <1>1, <1>2, <1>3, <1>4, <1>5 DEF Next, Finished

LEMMA MemTypeNext == Types /\ [Next]_vars => MemType'
<1> SUFFICES ASSUME MemType, [Next]_vars PROVE MemType'
  BY DEF Types
<1> USE DEF MemType
<1>1. CASE UNCHANGED mem
  BY <1>1 DEF mem
<1>2. CASE CreateAlloc
  BY <1>2, Zenon DEF CreateAlloc, mem
<1>3. CASE threadpool_free
  <2>1. heap' \subseteq {"pool", "threads", "queue"}
    BY <1>3 DEF threadpool_free, AfterFree, mem
  <2>2. mutexInit' \in BOOLEAN /\ condInit' \in BOOLEAN
    BY <1>3, Zenon DEF threadpool_free, mem
  <2> QED BY <2>1, <2>2
<1>4. CreateAlloc \/ threadpool_free \/ UNCHANGED mem
  BY DEF Next, CreateStep, CreateErr, CreateHang, CreateThread, CreateCount, CreateFail,
         CreateReturn, AddCall, AddStep, AddLock, AddReject, AddAccept,
         WorkerStep, WorkerLock, WorkerWait, WorkerTake, WorkerReturn,
         WorkerExit, SpuriousWakeup, DestroyCall, DestroyStep, DestroyLock, DestroyLockStale,
         DestroyAgain, DestroyShutdown, DestroyJoin, DestroyFree, Finished, vars
<1> QED BY <1>1, <1>2, <1>3, <1>4

LEMMA PoolTypeNext == Types /\ [Next]_vars => PoolType'
<1> SUFFICES ASSUME PoolType, LocalType, CountType, [Next]_vars PROVE PoolType'
  BY DEF Types
<1> USE ArgumentsAccepted DEF PoolType
<1>1. CASE UNCHANGED <<ring, shutdown, counters>>
  BY <1>1 DEF ring, counters
<1>2. ASSUME NEW a \in Clients \cup Workers, AddAccept(a) PROVE PoolType'
  BY <1>2 DEF AddAccept, NextIndex, counters, LocalType
<1>3. ASSUME NEW w \in Workers, WorkerTake(w) PROVE PoolType'
  BY <1>3 DEF WorkerTake, NextIndex, counters, MustExit, immediate_shutdown,
              graceful_shutdown
<1>4. ASSUME NEW w \in Workers, WorkerExit(w) PROVE PoolType'
  BY <1>4 DEF WorkerExit, ring
<1>5. ASSUME NEW d \in Destroyers, DestroyShutdown(d) PROVE PoolType'
  BY <1>5 DEF DestroyShutdown, ring, counters
<1>6. CASE CreateCount
  BY <1>6 DEF CreateCount, CountType, ring
<1>7. \/ UNCHANGED <<ring, shutdown, counters>>
      \/ CreateCount
      \/ \E a \in Clients \cup Workers : AddAccept(a)
      \/ \E w \in Workers : WorkerTake(w) \/ WorkerExit(w)
      \/ \E d \in Destroyers : DestroyShutdown(d)
  BY DEF Next, CreateStep, CreateAlloc, CreateErr, CreateHang, CreateThread, CreateFail,
         CreateReturn, AddCall, AddStep, AddLock, AddReject,
         WorkerStep, WorkerLock, WorkerWait, WorkerReturn,
         SpuriousWakeup, DestroyCall, DestroyStep, DestroyLock, DestroyLockStale,
         DestroyAgain, DestroyJoin, DestroyFree, Finished, vars
<1> QED BY <1>1, <1>2, <1>3, <1>4, <1>5, <1>6, <1>7

\* threadpool_create never counts more threads than it was asked for.
LEMMA CountTypeNext == Types /\ [Next]_vars => CountType'
<1> SUFFICES ASSUME Types, [Next]_vars, pc'[Owner] = "count"
             PROVE  thread_count' < ThreadCount
  BY DEF CountType
<1> USE ThreadFacts DEF Types, PcType, PoolType, CountType
<1>1. CASE CreateStep
  BY <1>1 DEF CreateStep, CreateAlloc, CreateErr, CreateHang, CreateThread, CreateCount,
              CreateFail, CreateReturn, counters
<1>2. ASSUME NEW a \in Clients \cup Workers, AddCall(a) \/ AddStep(a)
      PROVE  UNCHANGED <<pc[Owner], thread_count>>
  BY <1>2 DEF AddCall, AddStep, AddLock, AddReject, AddAccept, SignalThen,
              Waiting, counters
<1>3. ASSUME NEW w \in Workers, WorkerStep(w) \/ SpuriousWakeup(w)
      PROVE  UNCHANGED <<pc[Owner], thread_count>>
  BY <1>3 DEF WorkerStep, WorkerLock, WorkerWait, WorkerTake, WorkerReturn,
              WorkerExit, SpuriousWakeup, counters
<1>4. ASSUME NEW d \in Destroyers, DestroyCall(d) \/ DestroyStep(d)
      PROVE  thread_count' = thread_count /\ pc[Owner] = "count"
  BY <1>4 DEF DestroyCall, DestroyStep, DestroyLock, DestroyLockStale, DestroyAgain,
              DestroyShutdown, BroadcastThen, DestroyJoin, DestroyFree, counters
<1>5. CASE UNCHANGED vars
  BY <1>5 DEF vars, counters
<1> QED BY <1>1, <1>2, <1>3, <1>4, <1>5 DEF Next, Finished

LEMMA LocalTypeNext == Types /\ [Next]_vars => LocalType'
<1> SUFFICES ASSUME Types, [Next]_vars PROVE LocalType'
  OBVIOUS
<1> USE ThreadFacts DEF LocalType
<1>0. LocalType /\ PoolType
  BY DEF Types
<1>1. lock' \in Threads \cup {NoThread}
  BY <1>0 DEF Next, CreateStep, CreateAlloc, CreateErr, CreateHang, CreateThread, CreateCount,
         CreateFail, CreateReturn, AddCall, AddStep, AddLock, AddReject, AddAccept,
         WorkerStep, WorkerLock, WorkerWait, WorkerTake, WorkerReturn,
         WorkerExit, SpuriousWakeup, DestroyCall, DestroyStep, DestroyLock, DestroyLockStale,
         DestroyAgain, DestroyShutdown, DestroyJoin, DestroyFree, Finished, vars
<1>2. wtask' \in [Workers -> Nat \cup {NoTask}]
  <2>1. ASSUME NEW w \in Workers, WorkerTake(w) PROVE wtask' \in [Workers -> Nat \cup {NoTask}]
    <3>1. queue[head] \in Nat \cup {NoTask}
      BY <1>0 DEF PoolType
    <3> QED BY <1>0, <2>1, <3>1 DEF WorkerTake
  <2>2. UNCHANGED wtask \/ \E w \in Workers : WorkerTake(w)
    BY DEF Next, CreateStep, CreateAlloc, CreateErr, CreateHang, CreateThread, CreateCount,
         CreateFail, CreateReturn, AddCall, AddStep, AddLock, AddReject, AddAccept,
         WorkerStep, WorkerLock, WorkerWait, WorkerReturn,
         WorkerExit, SpuriousWakeup, DestroyCall, DestroyStep, DestroyLock, DestroyLockStale,
         DestroyAgain, DestroyShutdown, DestroyJoin, DestroyFree, Finished, vars
  <2> QED BY <1>0, <2>1, <2>2
<1>3. joined' \in [Destroyers -> 0 .. ThreadCount]
  <2>1. ASSUME NEW d \in Destroyers, DestroyJoin(d) PROVE joined' \in [Destroyers -> 0 .. ThreadCount]
    BY <1>0, <2>1, ArgumentsAccepted DEF DestroyJoin, PoolType
  <2>2. \/ UNCHANGED joined
        \/ \E d \in Destroyers : DestroyJoin(d)
        \/ \E d \in Destroyers : joined' = [joined EXCEPT ![d] = 0]
    BY DEF Next, CreateStep, CreateAlloc, CreateErr, CreateHang, CreateThread, CreateCount,
         CreateFail, CreateReturn, AddCall, AddStep, AddLock, AddReject, AddAccept,
         WorkerStep, WorkerLock, WorkerWait, WorkerTake, WorkerReturn,
         WorkerExit, SpuriousWakeup, DestroyCall, DestroyStep, DestroyLock, DestroyLockStale,
         DestroyAgain, DestroyShutdown, DestroyFree, Finished, vars
  <2> QED BY <1>0, <2>1, <2>2, ArgumentsAccepted
<1>4. /\ created' \in {"no", "ready", "failed"}
      /\ calls' \in Nat /\ submitted' \in Nat /\ taken' \in Nat
  BY <1>0 DEF Next, CreateStep, CreateAlloc, CreateErr, CreateHang, CreateThread, CreateCount,
         CreateFail, CreateReturn, AddCall, AddStep, AddLock, AddReject, AddAccept,
         WorkerStep, WorkerLock, WorkerWait, WorkerTake, WorkerReturn,
         WorkerExit, SpuriousWakeup, DestroyCall, DestroyStep, DestroyLock, DestroyLockStale,
         DestroyAgain, DestroyShutdown, DestroyJoin, DestroyFree, Finished, vars,
         history
<1>5. done' \subseteq Nat \cup {NoTask}
  <2>1. UNCHANGED done \/ \E w \in Workers : WorkerReturn(w)
    BY DEF Next, CreateStep, CreateAlloc, CreateErr, CreateHang, CreateThread, CreateCount,
         CreateFail, CreateReturn, AddCall, AddStep, AddLock, AddReject, AddAccept,
         WorkerStep, WorkerLock, WorkerWait, WorkerTake,
         WorkerExit, SpuriousWakeup, DestroyCall, DestroyStep, DestroyLock, DestroyLockStale,
         DestroyAgain, DestroyShutdown, DestroyJoin, DestroyFree, Finished, vars,
         history
  <2> QED BY <1>0, <2>1 DEF WorkerReturn
<1> QED BY <1>1, <1>2, <1>3, <1>4, <1>5

\* Every behaviour of the pool keeps its fields in range, whatever the
\* interleaving of its threads.
LEMMA TypesInvariant == Spec => []Types
<1>1. Init => Types
  <2> SUFFICES ASSUME Init PROVE Types
    OBVIOUS
  <2>1. PcType
    BY ThreadFacts, PcFacts DEF Init, PcType
  <2>2. PoolType /\ LocalType
    BY ThreadFacts, ArgumentsAccepted DEF Init, PoolType, LocalType
  <2>3. MemType
    BY DEF Init, MemType
  <2>4. CountType
    BY ThreadFacts DEF Init, CountType
  <2> QED BY <2>1, <2>2, <2>3, <2>4 DEF Types
<1>2. Types /\ [Next]_vars => Types'
  BY PcTypeNext, MemTypeNext, PoolTypeNext, LocalTypeNext, CountTypeNext DEF Types
<1> QED BY <1>1, <1>2, PTL DEF Spec

-------------------------------------------------------------------------------
LEMMA RingNext == Types /\ RingIsFifo /\ [Next]_vars => RingIsFifo'
<1> SUFFICES ASSUME PoolType, LocalType, RingIsFifo, [Next]_vars
             PROVE  RingIsFifo'
  BY DEF Types
<1> USE ArgumentsAccepted DEF PoolType, LocalType
<1>1. CASE UNCHANGED <<ring, submitted, taken>>
  BY <1>1 DEF RingIsFifo, Slot, ring
<1>2. ASSUME NEW a \in Clients \cup Workers, AddAccept(a) PROVE RingIsFifo'
  <2>1. /\ count < QueueSize /\ count' = count + 1 /\ head' = head
        /\ tail = Slot(count) /\ tail' = NextIndex(tail)
        /\ submitted' = submitted + 1 /\ taken' = taken
        /\ queue' = [queue EXCEPT ![tail] = submitted + 1]
    BY <1>2 DEF AddAccept, RingIsFifo
  <2>2. (tail = IF count = QueueSize THEN head ELSE Slot(count))'
    BY <2>1 DEF Slot, NextIndex
  <2>3. ASSUME NEW k \in 0 .. count' - 1 PROVE queue'[Slot(k)'] = taken' + k + 1
    <3>1. Slot(k)' = Slot(k)
      BY <2>1 DEF Slot
    <3>2. CASE k = count
      BY <2>1, <3>1, <3>2 DEF RingIsFifo, Slot
    <3>3. CASE k # count
      <4>1. k \in 0 .. count - 1 /\ Slot(k) # tail
        BY <2>1, <3>3 DEF Slot
      <4> QED BY <2>1, <3>1, <4>1 DEF RingIsFifo, Slot
    <3> QED BY <3>2, <3>3
  <2> QED BY <2>1, <2>2, <2>3 DEF RingIsFifo
<1>3. ASSUME NEW w \in Workers, WorkerTake(w) PROVE RingIsFifo'
  <2>1. /\ count > 0 /\ count' = count - 1 /\ head' = NextIndex(head)
        /\ tail' = tail /\ queue' = queue
        /\ submitted' = submitted /\ taken' = taken + 1
    BY <1>3 DEF WorkerTake, MustExit, immediate_shutdown, graceful_shutdown
  <2>2. (tail = IF count = QueueSize THEN head ELSE Slot(count))'
    BY <2>1 DEF RingIsFifo, Slot, NextIndex
  <2>3. ASSUME NEW k \in 0 .. count' - 1 PROVE queue'[Slot(k)'] = taken' + k + 1
    <3>1. Slot(k)' = Slot(k + 1) /\ k + 1 \in 0 .. count - 1
      BY <2>1 DEF Slot, NextIndex
    <3> QED BY <2>1, <3>1 DEF RingIsFifo
  <2> QED BY <2>1, <2>2, <2>3 DEF RingIsFifo
<1>4. \/ UNCHANGED <<ring, submitted, taken>>
      \/ \E a \in Clients \cup Workers : AddAccept(a)
      \/ \E w \in Workers : WorkerTake(w)
  BY DEF Next, CreateStep, CreateAlloc, CreateErr, CreateHang, CreateThread, CreateCount,
         CreateFail, CreateReturn, AddCall, AddStep, AddLock, AddReject,
         WorkerStep, WorkerLock, WorkerWait, WorkerReturn, WorkerExit,
         SpuriousWakeup, DestroyCall, DestroyStep, DestroyLock, DestroyLockStale, DestroyAgain,
         DestroyShutdown, DestroyJoin, DestroyFree, Finished, vars, history
<1> QED BY <1>1, <1>2, <1>3, <1>4

\* The circular queue that threadpool_add fills and threadpool_thread empties
\* holds the accepted tasks not yet taken, in the order they were accepted,
\* for every size of the queue.
THEOREM RingIsFifoAlways == Spec => []RingIsFifo
<1>1. Init => RingIsFifo
  BY ArgumentsAccepted DEF Init, RingIsFifo, Slot
<1> QED BY <1>1, TypesInvariant, RingNext, PTL DEF Spec

-------------------------------------------------------------------------------
LEMMA BirthNext == Types /\ LifeInv /\ [Next]_vars => BirthInv'
<1> SUFFICES ASSUME Types, LifeInv, [Next]_vars PROVE BirthInv'
  OBVIOUS
<1> USE ThreadFacts, ArgumentsAccepted DEF Types, PcType, PoolType, BirthInv, CreateInv, LifeInv, Creating
<1>1. CASE CreateAlloc
  BY <1>1 DEF CreateAlloc, ring, counters, mem
<1>2. CASE CreateErr \/ CreateHang
  BY <1>2 DEF CreateErr, CreateHang, ring, counters, threadpool_free, AfterFree, mem
<1>3. CASE CreateThread
  BY <1>3 DEF CreateThread, ring, counters, mem
<1>4. CASE CreateCount \/ CreateFail \/ CreateReturn
  BY <1>4 DEF CreateCount, CreateFail, CreateReturn, ring, counters, mem
<1>5. ASSUME NEW a \in Clients \cup Workers, AddCall(a) \/ AddLock(a) \/ AddReject(a)
      PROVE  BirthInv'
  BY <1>5, SMTT(30) DEF AddCall, AddLock, AddReject, AddReturn, ring, counters, mem
<1>6. ASSUME NEW a \in Clients \cup Workers, AddAccept(a)
      PROVE  BirthInv'
  BY <1>6 DEF AddAccept, AddReturn, SignalThen, Waiting, ring, counters, mem
<1>7. ASSUME NEW w \in Workers, WorkerLock(w) \/ WorkerWait(w) \/ SpuriousWakeup(w) \/ WorkerReturn(w)
      PROVE  BirthInv'
  BY <1>7 DEF WorkerLock, WorkerWait, SpuriousWakeup, WorkerReturn, ring, counters, mem
<1>8. ASSUME NEW w \in Workers, WorkerTake(w) \/ WorkerExit(w)
      PROVE  BirthInv'
  BY <1>8 DEF WorkerTake, WorkerExit, ring, counters, mem
<1>9. ASSUME NEW d \in Destroyers, DestroyCall(d) \/ DestroyLock(d) \/ DestroyLockStale(d) \/ DestroyAgain(d) \/ DestroyJoin(d)
      PROVE  BirthInv'
  BY <1>9 DEF DestroyCall, DestroyLock, DestroyLockStale, DestroyAgain, DestroyJoin, ring, counters, mem
<1>10. ASSUME NEW d \in Destroyers, DestroyShutdown(d)
      PROVE  BirthInv'
  BY <1>10 DEF DestroyShutdown, BroadcastThen, DestroyFlags, ring, counters, mem
<1>11. ASSUME NEW d \in Destroyers, DestroyFree(d)
      PROVE  BirthInv'
  BY <1>11 DEF DestroyFree, threadpool_free, AfterFree, ring, counters, mem
<1>12. CASE UNCHANGED vars
  BY <1>12 DEF vars, ring, counters, mem
<1> QED BY <1>1, <1>2, <1>3, <1>4, <1>5, <1>6, <1>7, <1>8, <1>9, <1>10, <1>11, <1>12
        DEF Next, CreateStep, AddStep, WorkerStep, DestroyStep, Finished

LEMMA CreateNext == Types /\ LifeInv /\ [Next]_vars => CreateInv'
<1> SUFFICES ASSUME Types, LifeInv, [Next]_vars PROVE CreateInv'
  OBVIOUS
<1> USE ThreadFacts, ArgumentsAccepted DEF Types, PcType, PoolType, CreateInv, LifeInv, Creating, LocalType, immediate_shutdown, graceful_shutdown, MustExit, ExitInv
<1>1. CASE CreateAlloc
  BY <1>1 DEF CreateAlloc, ring, counters, mem
<1>2. CASE CreateErr \/ CreateHang
  BY <1>2 DEF CreateErr, CreateHang, ring, counters, threadpool_free, AfterFree, mem
<1>3. CASE CreateThread
  BY <1>3 DEF CreateThread, ring, counters, mem
<1>4. CASE CreateCount \/ CreateFail \/ CreateReturn
  BY <1>4 DEF CreateCount, CreateFail, CreateReturn, ring, counters, mem
<1>5. ASSUME NEW a \in Clients \cup Workers, AddCall(a) \/ AddLock(a) \/ AddReject(a)
      PROVE  CreateInv'
  <2>1. \A d \in Destroyers : pc'[d] = pc[d]
    BY <1>5 DEF AddCall, AddLock, AddReject
  <2>2. \A w \in Workers : pc'[w] = "dead" => pc[w] = "dead"
    BY <1>5 DEF AddCall, AddLock, AddReject, AddReturn
  <2>3. (\E d \in Destroyers : pc[d] # "idle") =>
            \A c \in Clients : pc[c] = "idle" => pc'[c] = "idle"
    BY <1>5 DEF AddCall, AddLock, AddReject
  <2>4. shutdown' = shutdown /\ created' = created
    BY <1>5 DEF AddCall, AddLock, AddReject
  <2> QED BY <2>1, <2>2, <2>3, <2>4
<1>6. ASSUME NEW a \in Clients \cup Workers, AddAccept(a)
      PROVE  CreateInv'
  <2>1. \A d \in Destroyers : pc'[d] = pc[d]
    BY <1>6 DEF AddAccept, SignalThen, Waiting
  <2>2. /\ \A w \in Workers : pc'[w] = "dead" => pc[w] = "dead"
        /\ \A c \in Clients : pc[c] = "idle" => pc'[c] = "idle"
    BY <1>6 DEF AddAccept, AddReturn, SignalThen, Waiting
  <2> QED BY <1>6, <2>1, <2>2 DEF AddAccept
<1>7. ASSUME NEW w \in Workers, WorkerLock(w) \/ WorkerWait(w) \/ SpuriousWakeup(w) \/ WorkerReturn(w)
      PROVE  CreateInv'
  BY <1>7, SMTT(30) DEF WorkerLock, WorkerWait, SpuriousWakeup, WorkerReturn, ring, counters, mem
<1>8. ASSUME NEW w \in Workers, WorkerTake(w) \/ WorkerExit(w)
      PROVE  CreateInv'
  BY <1>8, SMTT(30) DEF WorkerTake, WorkerExit, ring, counters, mem
<1>9. ASSUME NEW d \in Destroyers, DestroyCall(d) \/ DestroyLock(d) \/ DestroyLockStale(d) \/ DestroyAgain(d) \/ DestroyJoin(d)
      PROVE  CreateInv'
  <2>1. CASE DestroyCall(d) \/ DestroyLock(d) \/ DestroyLockStale(d)
    BY <2>1 DEF DestroyCall, DestroyLock, DestroyLockStale, ring, counters, mem
  <2>2. CASE DestroyAgain(d)
    BY <2>2 DEF DestroyAgain, ring, counters, mem
  <2>3. CASE DestroyJoin(d)
    BY <2>3 DEF DestroyJoin, ring, counters, mem
  <2> QED BY <1>9, <2>1, <2>2, <2>3
<1>10. ASSUME NEW d \in Destroyers, DestroyShutdown(d)
      PROVE  CreateInv'
  <2>1. created' = created /\ created # "no"
    BY <1>10 DEF DestroyShutdown
  <2>2. created # "ready" => shutdown' # graceful_shutdown
    BY <1>10 DEF DestroyShutdown, DestroyFlags, threadpool_graceful
  <2>3. \A e \in Destroyers : pc'[e] = IF e = d THEN "join" ELSE pc[e]
    BY <1>10 DEF DestroyShutdown, BroadcastThen, DestroyerPC
  <2>4. \A c \in Clients : pc'[c] = pc[c]
    BY <1>10 DEF DestroyShutdown, BroadcastThen, ClientPC
  <2>5. pc[d] = "crit"
    BY <1>10 DEF DestroyShutdown
  <2> QED BY <2>1, <2>2, <2>3, <2>4, <2>5
<1>11. ASSUME NEW d \in Destroyers, DestroyFree(d)
      PROVE  CreateInv'
  BY <1>11 DEF DestroyFree, threadpool_free, AfterFree, ring, counters, mem
<1>12. CASE UNCHANGED vars
  BY <1>12 DEF vars, ring, counters, mem
<1> QED BY <1>1, <1>2, <1>3, <1>4, <1>5, <1>6, <1>7, <1>8, <1>9, <1>10, <1>11, <1>12
        DEF Next, CreateStep, AddStep, WorkerStep, DestroyStep, Finished

LEMMA ExitNext == Types /\ LifeInv /\ [Next]_vars => ExitInv'
<1> SUFFICES ASSUME Types, LifeInv, [Next]_vars PROVE ExitInv'
  OBVIOUS
<1> USE ThreadFacts, ArgumentsAccepted DEF Types, PcType, PoolType, ExitInv, CreateInv, BirthInv, LifeInv, Creating, immediate_shutdown, graceful_shutdown, MustExit
<1>1. CASE CreateAlloc
  BY <1>1 DEF CreateAlloc, ring, counters, mem
<1>2. CASE CreateErr \/ CreateHang
  BY <1>2 DEF CreateErr, CreateHang, ring, counters, threadpool_free, AfterFree, mem
<1>3. CASE CreateThread
  BY <1>3 DEF CreateThread, ring, counters, mem
<1>4. CASE CreateCount \/ CreateFail \/ CreateReturn
  BY <1>4 DEF CreateCount, CreateFail, CreateReturn, ring, counters, mem
<1>5. ASSUME NEW a \in Clients \cup Workers, AddCall(a) \/ AddLock(a) \/ AddReject(a)
      PROVE  ExitInv'
  BY <1>5, SMTT(30) DEF AddCall, AddLock, AddReject, AddReturn, ring, counters, mem
<1>6. ASSUME NEW a \in Clients \cup Workers, AddAccept(a)
      PROVE  ExitInv'
  BY <1>6 DEF AddAccept, AddReturn, SignalThen, Waiting, ring, counters, mem
<1>7. ASSUME NEW w \in Workers, WorkerLock(w) \/ WorkerWait(w) \/ SpuriousWakeup(w) \/ WorkerReturn(w)
      PROVE  ExitInv'
  BY <1>7 DEF WorkerLock, WorkerWait, SpuriousWakeup, WorkerReturn, ring, counters, mem
<1>8. ASSUME NEW w \in Workers, WorkerTake(w) \/ WorkerExit(w)
      PROVE  ExitInv'
  BY <1>8 DEF WorkerTake, WorkerExit, ring, counters, mem
<1>9. ASSUME NEW d \in Destroyers, DestroyCall(d) \/ DestroyLock(d) \/ DestroyLockStale(d) \/ DestroyAgain(d) \/ DestroyJoin(d)
      PROVE  ExitInv'
  BY <1>9 DEF DestroyCall, DestroyLock, DestroyLockStale, DestroyAgain, DestroyJoin, ring, counters, mem
<1>10. ASSUME NEW d \in Destroyers, DestroyShutdown(d)
      PROVE  ExitInv'
  BY <1>10 DEF DestroyShutdown, BroadcastThen, DestroyFlags, ring, counters, mem
<1>11. ASSUME NEW d \in Destroyers, DestroyFree(d)
      PROVE  ExitInv'
  BY <1>11 DEF DestroyFree, threadpool_free, AfterFree, ring, counters, mem
<1>12. CASE UNCHANGED vars
  BY <1>12 DEF vars, ring, counters, mem
<1> QED BY <1>1, <1>2, <1>3, <1>4, <1>5, <1>6, <1>7, <1>8, <1>9, <1>10, <1>11, <1>12
        DEF Next, CreateStep, AddStep, WorkerStep, DestroyStep, Finished

LEMMA JoinNext == Types /\ LifeInv /\ [Next]_vars => JoinInv'
<1> SUFFICES ASSUME Types, LifeInv, [Next]_vars PROVE JoinInv'
  OBVIOUS
<1> USE ThreadFacts, ArgumentsAccepted DEF Types, PcType, LifeInv
<1>0. \A d \in Destroyers : \A i \in 0 .. joined[d] - 1 : i \in Workers
  BY DEF LocalType
<1>1. ASSUME shutdown # 0 => shutdown' # 0, joined' = joined,
             \A w \in Workers : pc[w] = "dead" => pc'[w] = "dead",
             \A d \in Destroyers : pc'[d] = "join" => pc[d] = "join"
      PROVE  JoinInv'
  BY <1>0, <1>1 DEF JoinInv
<1>2. CASE CreateStep
  <2>1. \A w \in Workers : pc[w] = "dead" => pc'[w] = "dead"
    BY <1>2 DEF CreateStep, CreateAlloc, CreateErr, CreateHang, CreateThread, CreateCount,
                CreateFail, CreateReturn, CreateInv, Creating
  <2>2. \A d \in Destroyers : pc'[d] = "join" => pc[d] = "join"
    BY <1>2 DEF CreateStep, CreateAlloc, CreateErr, CreateHang, CreateThread, CreateCount,
                CreateFail, CreateReturn, PoolType
  <2> QED BY <1>1, <1>2, <2>1, <2>2
          DEF CreateStep, CreateAlloc, CreateErr, CreateHang, CreateThread, CreateCount,
              CreateFail, CreateReturn
<1>3. ASSUME NEW a \in Clients \cup Workers, AddCall(a) \/ AddStep(a)
      PROVE  JoinInv'
  <2>1. /\ \A w \in Workers : pc[w] = "dead" => pc'[w] = "dead"
        /\ \A d \in Destroyers : pc'[d] = "join" => pc[d] = "join"
    BY <1>3 DEF AddCall, AddStep, AddLock, AddReject, AddAccept, SignalThen,
                Waiting, AddReturn
  <2> QED BY <1>1, <1>3, <2>1 DEF AddCall, AddStep, AddLock, AddReject, AddAccept
<1>4. ASSUME NEW w \in Workers, WorkerStep(w) \/ SpuriousWakeup(w)
      PROVE  JoinInv'
  <2>1. /\ \A v \in Workers : pc[v] = "dead" => pc'[v] = "dead"
        /\ \A d \in Destroyers : pc'[d] = "join" => pc[d] = "join"
    BY <1>4 DEF WorkerStep, WorkerLock, WorkerWait, WorkerTake, WorkerReturn,
                WorkerExit, SpuriousWakeup
  <2> QED BY <1>1, <1>4, <2>1 DEF WorkerStep, WorkerLock, WorkerWait,
                WorkerTake, WorkerReturn, WorkerExit, SpuriousWakeup
<1>5. ASSUME NEW d \in Destroyers,
             DestroyCall(d) \/ DestroyLock(d) \/ DestroyLockStale(d) \/ DestroyAgain(d) \/ DestroyFree(d)
      PROVE  JoinInv'
  <2>1. /\ \A v \in Workers : pc[v] = "dead" => pc'[v] = "dead"
        /\ \A e \in Destroyers : pc'[e] = "join" => pc[e] = "join"
    BY <1>5 DEF DestroyCall, DestroyLock, DestroyLockStale, DestroyAgain, DestroyFree
  <2> QED BY <1>1, <1>5, <2>1 DEF DestroyCall, DestroyLock, DestroyLockStale, DestroyAgain, DestroyFree
<1>6. ASSUME NEW d \in Destroyers, DestroyShutdown(d) PROVE JoinInv'
  <2>1. \A e \in Destroyers : pc[e] # "join"
    BY <1>6 DEF DestroyShutdown, JoinInv
  <2>2. \A e \in Destroyers : pc'[e] = "join" => e = d
    BY <1>6, <2>1 DEF DestroyShutdown, BroadcastThen
  <2>3. shutdown' # 0
    BY <1>6 DEF DestroyShutdown, immediate_shutdown, graceful_shutdown
  <2>4. joined'[d] = 0
    BY <1>6 DEF DestroyShutdown, LocalType
  <2> QED BY <2>2, <2>3, <2>4 DEF JoinInv
<1>7. ASSUME NEW d \in Destroyers, DestroyJoin(d) PROVE JoinInv'
  <2>1. /\ pc' = pc /\ shutdown' = shutdown
        /\ joined' = [joined EXCEPT ![d] = @ + 1]
        /\ joined[d] \in Nat /\ pc[joined[d]] = "dead"
    BY <1>7 DEF DestroyJoin, LocalType
  <2>2. \A i \in 0 .. joined[d] : i \in 0 .. joined[d] - 1 \/ i = joined[d]
    BY <2>1
  <2>3. \A e \in Destroyers : joined'[e] = IF e = d THEN joined[d] + 1 ELSE joined[e]
    BY <2>1 DEF LocalType
  <2> QED BY <2>1, <2>2, <2>3 DEF JoinInv
<1>8. CASE UNCHANGED vars
  BY <1>1, <1>8 DEF vars
<1> QED BY <1>2, <1>3, <1>4, <1>5, <1>6, <1>7, <1>8
        DEF Next, DestroyStep, Finished

LEMMA HeapNext == Types /\ LifeInv /\ [Next]_vars => HeapInv'
<1> SUFFICES ASSUME Types, LifeInv, [Next]_vars PROVE HeapInv'
  OBVIOUS
<1> USE ThreadFacts, ArgumentsAccepted DEF Types, PcType, PoolType, LocalType, HeapInv, JoinInv, CreateInv, BirthInv, MutexInv, Critical, LifeInv, Creating, immediate_shutdown, graceful_shutdown
<1>1. CASE CreateAlloc
  <2>1. /\ created' = "failed" /\ pc'[Owner] = "null" /\ heap' = heap
        \/ /\ created' = "no" /\ "pool" \in heap'
           /\ \/ pc'[Owner] = "err"
              \/ pc'[Owner] = "spawn" /\ heap' = {"pool", "threads", "queue"}
    BY <1>1, FaultAssumption DEF CreateAlloc, mem
  <2>2. \A t \in Threads \ {Owner} : pc'[t] = pc[t]
    BY <1>1 DEF CreateAlloc
  <2>3. shutdown' = shutdown /\ shutdown = 0 /\ pc[Owner] = "create"
        /\ \A w \in Workers : pc[w] = "unborn"
    BY <1>1 DEF CreateAlloc
  <2>4. \A d \in Destroyers \ {Owner} : pc[d] = "idle"
    BY <1>1 DEF CreateAlloc
  <2> QED BY <2>1, <2>2, <2>3, <2>4
<1>2. CASE CreateErr
  <2>1. created' = "failed" /\ shutdown' = 0 /\ pc'[Owner] = "null"
    BY <1>2 DEF CreateErr
  <2>2. \A w \in Workers : pc'[w] = "unborn"
    BY <1>2 DEF CreateErr
  <2>3. \A d \in Destroyers \ {Owner} : pc'[d] = "idle"
    BY <1>2 DEF CreateErr
  <2>4. "pool" \in heap' => heap' = {"pool", "threads", "queue"}
    BY <1>2 DEF CreateErr, threadpool_free, AfterFree
  <2> QED BY <2>1, <2>2, <2>3, <2>4
<1>2a. CASE CreateHang
  BY <1>2a DEF CreateHang, ring, counters, mem
<1>3. CASE CreateThread
  BY <1>3 DEF CreateThread, ring, counters, mem
<1>4. CASE CreateCount \/ CreateFail \/ CreateReturn
  BY <1>4 DEF CreateCount, CreateFail, CreateReturn, ring, counters, mem
<1>5. ASSUME NEW a \in Clients \cup Workers, AddCall(a) \/ AddLock(a) \/ AddReject(a)
      PROVE  HeapInv'
  BY <1>5 DEF AddCall, AddLock, AddReject, AddReturn, ring, counters, mem
<1>6. ASSUME NEW a \in Clients \cup Workers, AddAccept(a)
      PROVE  HeapInv'
  BY <1>6 DEF AddAccept, AddReturn, SignalThen, Waiting, ring, counters, mem
<1>7. ASSUME NEW w \in Workers, WorkerLock(w) \/ WorkerWait(w) \/ SpuriousWakeup(w) \/ WorkerReturn(w)
      PROVE  HeapInv'
  BY <1>7 DEF WorkerLock, WorkerWait, SpuriousWakeup, WorkerReturn, ring, counters, mem
<1>8. ASSUME NEW w \in Workers, WorkerTake(w) \/ WorkerExit(w)
      PROVE  HeapInv'
  BY <1>8 DEF WorkerTake, WorkerExit, ring, counters, mem
<1>9. ASSUME NEW d \in Destroyers, DestroyCall(d) \/ DestroyLock(d) \/ DestroyLockStale(d) \/ DestroyAgain(d) \/ DestroyJoin(d)
      PROVE  HeapInv'
  BY <1>9 DEF DestroyCall, DestroyLock, DestroyLockStale, DestroyAgain, DestroyJoin, ring, counters, mem
<1>10. ASSUME NEW d \in Destroyers, DestroyShutdown(d)
      PROVE  HeapInv'
  BY <1>10 DEF DestroyShutdown, BroadcastThen, DestroyFlags, ring, counters, mem
<1>11. ASSUME NEW d \in Destroyers, DestroyFree(d)
      PROVE  HeapInv'
  <2>1. /\ pc' = [pc EXCEPT ![d] = "done"] /\ pc[d] = "join"
        /\ shutdown' = shutdown /\ shutdown # 0 /\ created' = created
    BY <1>11 DEF DestroyFree
  <2>2. CASE UNCHANGED mem
    BY <2>1, <2>2 DEF mem
  <2>3. CASE ~UNCHANGED mem
    <3>1. heap = {"pool", "threads", "queue"}
      BY <2>1
    <3>2. /\ lock = NoThread
          /\ heap' = {} /\ mutexInit' = FALSE /\ condInit' = FALSE
      BY <1>11, <2>3, <3>1 DEF DestroyFree, threadpool_free, AfterFree
    <3>3. \A e \in Destroyers : pc[e] # "crit" /\ (pc[e] = "join" => e = d)
      BY <2>1, <3>2
    <3>4. \A w \in Workers : pc[w] \in {"unborn", "dead"}
      BY <1>11, <2>1 DEF DestroyFree
    <3> QED BY <2>1, <3>2, <3>3, <3>4
  <2> QED BY <2>2, <2>3
<1>12. CASE UNCHANGED vars
  BY <1>12 DEF vars, ring, counters, mem
<1> QED BY <1>1, <1>2, <1>2a, <1>3, <1>4, <1>5, <1>6, <1>7, <1>8, <1>9, <1>10, <1>11, <1>12
        DEF Next, CreateStep, AddStep, WorkerStep, DestroyStep, Finished

LEMMA MutexNext == Types /\ LifeInv /\ [Next]_vars => MutexInv'
<1> SUFFICES ASSUME Types, LifeInv, [Next]_vars PROVE MutexInv'
  OBVIOUS
<1> USE ThreadFacts, ArgumentsAccepted DEF Types, PcType, MutexInv, LifeInv, BirthInv, CreateInv, Critical
<1>1. CASE CreateAlloc
  BY <1>1 DEF CreateAlloc, ring, counters, mem
<1>2. CASE CreateErr \/ CreateHang
  BY <1>2 DEF CreateErr, CreateHang, ring, counters, threadpool_free, AfterFree, mem
<1>3. CASE CreateThread
  BY <1>3 DEF CreateThread, ring, counters, mem
<1>4. CASE CreateCount \/ CreateFail \/ CreateReturn
  BY <1>4 DEF CreateCount, CreateFail, CreateReturn, ring, counters, mem
<1>5. ASSUME NEW a \in Clients \cup Workers, AddCall(a) \/ AddLock(a) \/ AddReject(a)
      PROVE  MutexInv'
  BY <1>5 DEF AddCall, AddLock, AddReject, AddReturn, ring, counters, mem
<1>6. ASSUME NEW a \in Clients \cup Workers, AddAccept(a)
      PROVE  MutexInv'
  BY <1>6 DEF AddAccept, AddReturn, SignalThen, Waiting, ring, counters, mem
<1>7. ASSUME NEW w \in Workers, WorkerLock(w) \/ WorkerWait(w) \/ SpuriousWakeup(w) \/ WorkerReturn(w)
      PROVE  MutexInv'
  BY <1>7 DEF WorkerLock, WorkerWait, SpuriousWakeup, WorkerReturn, ring, counters, mem
<1>8. ASSUME NEW w \in Workers, WorkerTake(w) \/ WorkerExit(w)
      PROVE  MutexInv'
  BY <1>8 DEF WorkerTake, WorkerExit, ring, counters, mem
<1>9. ASSUME NEW d \in Destroyers, DestroyCall(d) \/ DestroyLock(d) \/ DestroyLockStale(d) \/ DestroyAgain(d) \/ DestroyJoin(d)
      PROVE  MutexInv'
  BY <1>9 DEF DestroyCall, DestroyLock, DestroyLockStale, DestroyAgain, DestroyJoin, ring, counters, mem
<1>10. ASSUME NEW d \in Destroyers, DestroyShutdown(d)
      PROVE  MutexInv'
  BY <1>10 DEF DestroyShutdown, BroadcastThen, DestroyFlags, ring, counters, mem
<1>11. ASSUME NEW d \in Destroyers, DestroyFree(d)
      PROVE  MutexInv'
  BY <1>11 DEF DestroyFree, threadpool_free, AfterFree, ring, counters, mem
<1>12. CASE UNCHANGED vars
  BY <1>12 DEF vars, ring, counters, mem
<1> QED BY <1>1, <1>2, <1>3, <1>4, <1>5, <1>6, <1>7, <1>8, <1>9, <1>10, <1>11, <1>12
        DEF Next, CreateStep, AddStep, WorkerStep, DestroyStep, Finished

\* Only a destroyer that frees the pool overtakes the others.
LEMMA OvertakenNext == Types /\ LifeInv /\ [Next]_vars => OvertakenInv'
<1> SUFFICES ASSUME Types, LifeInv, [Next]_vars PROVE OvertakenInv'
  OBVIOUS
<1> USE ThreadFacts DEF OvertakenInv
<1>0. /\ OvertakenInv /\ HeapInv /\ CreateInv /\ JoinInv /\ BirthInv /\ MutexInv
      /\ pc \in [Threads -> WorkerPC \cup ClientPC \cup DestroyerPC]
  BY DEF LifeInv, Types, PcType
<1>1. CASE CreateStep
  <2>1. /\ pc[Owner] \in Creating /\ shutdown = 0
        /\ \A d \in Destroyers \ {Owner} : pc[d] = "idle"
        /\ pc[Owner] # "create" => "pool" \in heap
    BY <1>0, <1>1 DEF CreateStep, CreateAlloc, CreateErr, CreateHang, CreateThread,
                 CreateCount, CreateFail, CreateReturn, Creating, CreateInv, HeapInv
  <2>2. \A d \in Destroyers \ {Owner} : pc'[d] = "idle"
    BY <1>0, <1>1, <2>1 DEF CreateStep, CreateAlloc, CreateErr, CreateHang, CreateThread,
                 CreateCount, CreateFail, CreateReturn, Types, PoolType
  <2>3. /\ pc'[Owner] # "stale" /\ (pc'[Owner] = "lock" => "pool" \in heap')
    BY <1>0, <1>1, <2>1 DEF CreateStep, CreateAlloc, CreateErr, CreateHang, CreateThread,
                 CreateCount, CreateFail, CreateReturn, mem, Types, PoolType
  <2>4. pc'[Owner] \notin {"create", "err", "hung"} /\ "pool" \in heap' => mutexInit'
    <3>1. CASE CreateAlloc
      BY <1>0, <3>1, FaultAssumption DEF CreateAlloc, HeapInv, mem
    <3>2. CASE CreateErr
      <4>1. started = 0
        BY <1>0, <3>2 DEF CreateErr, BirthInv
      <4> QED BY <3>2, <4>1 DEF CreateErr, threadpool_free, AfterFree
    <3>3. CASE CreateHang
      BY <1>0, <3>3 DEF CreateHang
    <3>4. CASE CreateThread \/ CreateCount \/ CreateFail \/ CreateReturn
      BY <1>0, <3>4 DEF CreateThread, CreateCount, CreateFail, CreateReturn, mem
    <3> QED BY <1>1, <3>1, <3>2, <3>3, <3>4 DEF CreateStep
  <2> QED BY <2>2, <2>3, <2>4
<1>2. ASSUME UNCHANGED mem, \A d \in Destroyers : pc'[d] = pc[d]
      PROVE  OvertakenInv'
  BY <1>0, <1>2 DEF mem
<1>3. ASSUME NEW a \in Clients \cup Workers, AddCall(a) \/ AddStep(a)
      PROVE  OvertakenInv'
  BY <1>0, <1>2, <1>3 DEF AddCall, AddStep, AddLock, AddReject, AddAccept, SignalThen, Waiting
<1>4. ASSUME NEW w \in Workers, WorkerStep(w) \/ SpuriousWakeup(w)
      PROVE  OvertakenInv'
  BY <1>0, <1>2, <1>4 DEF WorkerStep, WorkerLock, WorkerWait, WorkerTake, WorkerReturn,
                 WorkerExit, SpuriousWakeup
<1>5. ASSUME NEW d \in Destroyers, DestroyCall(d) \/ DestroyStep(d)
      PROVE  OvertakenInv'
  <2>1. pc[Owner] \notin Creating
    BY <1>0, <1>5 DEF CreateInv, Creating, DestroyCall, DestroyStep, DestroyLock,
           DestroyLockStale, DestroyAgain, DestroyShutdown, DestroyJoin, DestroyFree
  <2>2. pc[d] # "done" /\ \A e \in Destroyers \ {d} : pc'[e] = pc[e]
    <3>1. \A e \in Destroyers : pc[e] # "waiting"
      BY PcFacts DEF Types, PcType
    <3> QED BY <3>1, <1>0, <1>5 DEF DestroyCall, DestroyStep, DestroyLock, DestroyLockStale,
           DestroyAgain, DestroyShutdown, BroadcastThen, DestroyJoin, DestroyFree
  <2>3. CASE DestroyFree(d)
    BY <1>0, <2>1, <2>2, <2>3 DEF DestroyFree, threadpool_free, AfterFree, mem, HeapInv, Creating
  <2>4. CASE DestroyCall(d) \/ DestroyLock(d) \/ DestroyLockStale(d)
    BY <1>0, <2>1, <2>2, <2>4 DEF DestroyCall, DestroyLock, DestroyLockStale, mem, Creating
  <2>5. CASE DestroyAgain(d) \/ DestroyShutdown(d) \/ DestroyJoin(d)
    BY <1>0, <2>1, <2>2, <2>5 DEF DestroyAgain, DestroyShutdown, BroadcastThen, DestroyJoin,
           mem, Creating
  <2> QED BY <1>5, <2>3, <2>4, <2>5 DEF DestroyStep
<1>6. CASE UNCHANGED vars
  BY <1>0, <1>2, <1>6 DEF vars
<1> QED BY <1>1, <1>3, <1>4, <1>5, <1>6 DEF Next, Finished

\* The lock is given back by every thread but a second destroyer.
LEMMA LockNext == Types /\ LifeInv /\ [Next]_vars => LockGivenBack'
<1> SUFFICES ASSUME Types, LifeInv, [Next]_vars PROVE LockGivenBack'
  OBVIOUS
<1> USE ThreadFacts DEF LockGivenBack, LockKept
<1>0. /\ LockGivenBack /\ HeapInv /\ CreateInv /\ JoinInv /\ BirthInv /\ MutexInv
      /\ pc \in [Threads -> WorkerPC \cup ClientPC \cup DestroyerPC]
      /\ lock \in Threads \cup {NoThread}
  BY DEF LifeInv, Types, PcType, LocalType
<1>1. CASE CreateStep
  <2>1. /\ lock' = lock /\ \A d \in Destroyers : pc[d] # "done"
        /\ pc[Owner] \notin Critical
    BY <1>0, <1>1 DEF CreateStep, CreateAlloc, CreateErr, CreateHang, CreateThread,
                 CreateCount, CreateFail, CreateReturn, CreateInv, Creating, Critical
  <2>2. \A d \in Destroyers : pc'[d] # "done"
    BY <1>0, <1>1, <2>1 DEF CreateStep, CreateAlloc, CreateErr, CreateHang, CreateThread,
                 CreateCount, CreateFail, CreateReturn, Types, PoolType
  <2>3. \A t \in Threads : pc[t] \in Critical => pc'[t] = pc[t]
    BY <1>0, <1>1, <2>1 DEF CreateStep, CreateAlloc, CreateErr, CreateHang, CreateThread,
                 CreateCount, CreateFail, CreateReturn, Types, PoolType, Critical, BirthInv
  <2>4. \A t \in Threads : lock = t => pc[t] \in Critical
    BY <1>0, <2>1 DEF Types, PcType, WorkerPC, ClientPC, Threads
  <2> QED BY <1>0, <2>1, <2>2, <2>3, <2>4
<1>2. ASSUME NEW a \in Clients \cup Workers, AddCall(a) \/ AddStep(a)
      PROVE  LockGivenBack'
  <2>1. UNCHANGED heap /\ \A d \in Destroyers : pc'[d] = pc[d]
    BY <1>0, <1>2 DEF AddCall, AddStep, AddLock, AddReject, AddAccept, SignalThen, Waiting, mem
  <2>2. lock' \in {NoThread, a, lock} /\ (lock' = a => pc'[a] = "addheld" \/ lock = a)
    BY <1>0, <1>2 DEF AddCall, AddStep, AddLock, AddReject, AddAccept
  <2>3. lock' = lock /\ lock # NoThread =>
          \A t \in Threads : pc[t] \in Critical \cup {"done"} => pc'[t] = pc[t]
    BY <1>0, <1>2 DEF AddCall, AddStep, AddLock, AddReject, AddAccept, Critical
  <2> QED BY <1>0, <2>1, <2>2, <2>3 DEF Critical
<1>3. ASSUME NEW w \in Workers, WorkerStep(w) \/ SpuriousWakeup(w)
      PROVE  LockGivenBack'
  <2>1. UNCHANGED heap /\ \A d \in Destroyers : pc'[d] = pc[d]
    BY <1>0, <1>3 DEF WorkerStep, WorkerLock, WorkerWait, WorkerTake, WorkerReturn,
                 WorkerExit, SpuriousWakeup, mem
  <2>2. lock' \in {NoThread, w, lock} /\ (lock' = w => pc'[w] = "held" \/ lock = w)
    BY <1>0, <1>3 DEF WorkerStep, WorkerLock, WorkerWait, WorkerTake, WorkerReturn,
                 WorkerExit, SpuriousWakeup
  <2>3. lock' = lock /\ lock # NoThread =>
          \A t \in Threads : pc[t] \in Critical \cup {"done"} => pc'[t] = pc[t]
    BY <1>0, <1>3 DEF WorkerStep, WorkerLock, WorkerWait, WorkerTake, WorkerReturn,
                 WorkerExit, SpuriousWakeup, Critical
  <2> QED BY <1>0, <2>1, <2>2, <2>3 DEF Critical
<1>4. ASSUME NEW d \in Destroyers, DestroyCall(d) \/ DestroyStep(d)
      PROVE  LockGivenBack'
  <2>1. \A e \in Destroyers \ {d} : pc'[e] = pc[e]
    <3>1. \A e \in Destroyers : pc[e] # "waiting"
      BY PcFacts DEF Types, PcType
    <3> QED BY <3>1, <1>0, <1>4 DEF DestroyCall, DestroyStep, DestroyLock, DestroyLockStale,
           DestroyAgain, DestroyShutdown, BroadcastThen, DestroyJoin, DestroyFree
  <2>2. CASE DestroyShutdown(d)
    BY <2>2 DEF DestroyShutdown
  <2>3. CASE DestroyAgain(d)
    <3>1. PICK e \in Destroyers : pc[e] \in {"join", "done"}
      BY <1>0, <2>3 DEF DestroyAgain, CreateInv
    <3>2. e # d /\ "pool" \in heap /\ lock = d
      BY <1>0, <2>3, <3>1 DEF DestroyAgain, HeapInv, MutexInv, Critical
    <3> QED BY <1>0, <2>1, <2>3, <3>1, <3>2 DEF DestroyAgain, mem, Critical
  <2>4. CASE DestroyFree(d)
    <3>1. pc[d] = "join" /\ pc' = [pc EXCEPT ![d] = "done"] /\ lock' = lock
      BY <2>4 DEF DestroyFree
    <3>2. lock # NoThread => heap' = heap
      BY <2>4 DEF DestroyFree, threadpool_free, mem
    <3>3. lock # d
      BY <1>0, <3>1 DEF Critical
    <3> QED BY <1>0, <2>1, <3>1, <3>2, <3>3 DEF Critical
  <2>5. CASE DestroyCall(d) \/ DestroyLock(d) \/ DestroyLockStale(d) \/ DestroyJoin(d)
    <3>1. /\ heap' = heap /\ pc[d] \in {"idle", "lock", "join"}
          /\ \A t \in Threads \ {d} : pc'[t] = pc[t]
          /\ lock' = lock \/ (lock' = d /\ pc'[d] = "crit")
          /\ pc[d] = "join" => pc'[d] = "join"
      BY <1>0, <2>5 DEF DestroyCall, DestroyLock, DestroyLockStale, DestroyJoin, mem
    <3>2. lock # d
      BY <1>0, <3>1 DEF Critical
    <3> QED BY <1>0, <3>1, <3>2 DEF Critical
  <2> QED BY <1>4, <2>2, <2>3, <2>4, <2>5 DEF DestroyStep
<1>5. CASE UNCHANGED vars
  BY <1>0, <1>5 DEF vars, mem
<1> QED BY <1>1, <1>2, <1>3, <1>4, <1>5 DEF Next, Finished

\* The life-cycle invariant: from threadpool_create to threadpool_free each
\* thread is where the state of the pool says it must be.
THEOREM LifeInvAlways == Spec => []LifeInv
<1>1. Init => LifeInv
  <2> SUFFICES ASSUME Init PROVE LifeInv
    OBVIOUS
  <2> USE ThreadFacts, ArgumentsAccepted DEF Init
  <2>1. BirthInv
    BY DEF BirthInv
  <2>2. CreateInv /\ ExitInv
    BY DEF CreateInv, Creating, ExitInv, graceful_shutdown
  <2>3. JoinInv /\ MutexInv
    BY DEF JoinInv, MutexInv, Critical
  <2>4. HeapInv /\ OvertakenInv
    BY DEF HeapInv, OvertakenInv
  <2>5. LockGivenBack
    BY DEF LockGivenBack, LockKept
  <2> QED BY <2>1, <2>2, <2>3, <2>4, <2>5 DEF LifeInv
<1>2. Types /\ LifeInv /\ [Next]_vars => LifeInv'
  BY BirthNext, CreateNext, ExitNext, JoinNext, HeapNext, MutexNext,
     OvertakenNext, LockNext DEF LifeInv
<1> QED BY <1>1, <1>2, TypesInvariant, PTL DEF Spec

-------------------------------------------------------------------------------
LEMMA OnceNext ==
  Types /\ LifeInv /\ RingIsFifo /\ ExactlyOnce /\ [Next]_vars => ExactlyOnce'
<1> SUFFICES ASSUME Types, LifeInv, RingIsFifo, ExactlyOnce, [Next]_vars
             PROVE  ExactlyOnce'
  OBVIOUS
<1> USE ThreadFacts DEF Types, PcType
<1>1. ASSUME UNCHANGED <<wtask, taken, done>>, InTask' = InTask
      PROVE  ExactlyOnce'
  BY <1>1 DEF ExactlyOnce
<1>2. CASE CreateStep
  <2>1. CASE CreateThread
    <3>1. thread_count \in Workers /\ pc[thread_count] = "unborn"
      BY <2>1 DEF CreateThread, LifeInv, BirthInv, PoolType
    <3> QED BY <1>1, <2>1, <3>1 DEF CreateThread, InTask, history
  <2>2. CASE ~CreateThread
    BY <1>1, <1>2, <2>2 DEF CreateStep, CreateAlloc, CreateErr, CreateHang, CreateCount,
              CreateFail, CreateReturn, InTask, history
  <2> QED BY <2>1, <2>2
<1>3. ASSUME NEW a \in Clients \cup Workers, AddCall(a) \/ AddStep(a)
      PROVE  ExactlyOnce'
  <2>1. CASE AddAccept(a)
    <3>1. InTask' = InTask
      BY <2>1 DEF AddAccept, SignalThen, Waiting, AddReturn, InTask
    <3> QED BY <1>1, <2>1, <3>1 DEF AddAccept
  <2>2. CASE AddCall(a) \/ AddLock(a) \/ AddReject(a)
    <3>1. InTask' = InTask
      BY <2>2 DEF AddCall, AddLock, AddReject, AddReturn, InTask
    <3> QED BY <1>1, <2>2, <3>1 DEF AddCall, AddLock, AddReject, history
  <2> QED BY <1>3, <2>1, <2>2 DEF AddStep
<1>4. ASSUME NEW w \in Workers, WorkerStep(w) \/ SpuriousWakeup(w)
      PROVE  ExactlyOnce'
  <2>1. CASE WorkerTake(w)
    <3>1. /\ InTask' = InTask \cup {w} /\ w \notin InTask
          /\ taken' = taken + 1 /\ done' = done
          /\ wtask' = [wtask EXCEPT ![w] = queue[head]]
      BY <2>1 DEF WorkerTake, InTask
    <3>2. queue[head] = taken + 1 /\ taken \in Nat
      <4>1. 0 \in 0 .. count - 1
        BY <2>1 DEF WorkerTake, MustExit, immediate_shutdown,
                    graceful_shutdown, PoolType
      <4>2. Slot(0) = head
        BY ArgumentsAccepted DEF Slot, PoolType
      <4>3. queue[Slot(0)] = taken + 0 + 1
        BY <4>1 DEF RingIsFifo
      <4> QED BY <4>2, <4>3 DEF LocalType
    <3>3. wtask'[w] = taken + 1 /\ \A v \in InTask : wtask'[v] = wtask[v]
      BY <3>1, <3>2 DEF InTask, LocalType
    <3>4. {wtask'[v] : v \in InTask'} = {wtask[v] : v \in InTask} \cup {taken + 1}
      BY <3>1, <3>3
    <3>5. taken + 1 \notin done /\ \A v \in InTask : wtask[v] # taken + 1
      BY <3>2 DEF ExactlyOnce
    <3>6. 1 .. taken' = (1 .. taken) \cup {taken + 1}
      BY <3>1, <3>2
    <3>7. done' \cup {wtask'[v] : v \in InTask'} = 1 .. taken'
      BY <3>1, <3>4, <3>6 DEF ExactlyOnce
    <3>8. /\ \A u, v \in InTask' : u # v => wtask'[u] # wtask'[v]
          /\ \A v \in InTask' : wtask'[v] \notin done'
      BY <3>1, <3>3, <3>5 DEF ExactlyOnce
    <3> QED BY <3>7, <3>8 DEF ExactlyOnce
  <2>2. CASE WorkerReturn(w)
    <3>1. /\ InTask' = InTask \ {w} /\ w \in InTask
          /\ taken' = taken /\ wtask' = wtask /\ done' = done \cup {wtask[w]}
      BY <2>2 DEF WorkerReturn, InTask
    <3> QED BY <3>1 DEF ExactlyOnce
  <2>3. CASE \/ WorkerLock(w) \/ WorkerWait(w) \/ WorkerExit(w)
             \/ SpuriousWakeup(w)
    <3>1. InTask' = InTask
      BY <2>3 DEF WorkerLock, WorkerWait, WorkerExit, SpuriousWakeup, InTask
    <3> QED BY <1>1, <2>3, <3>1
            DEF WorkerLock, WorkerWait, WorkerExit, SpuriousWakeup, history
  <2> QED BY <1>4, <2>1, <2>2, <2>3 DEF WorkerStep
<1>5. ASSUME NEW d \in Destroyers, DestroyCall(d) \/ DestroyStep(d)
      PROVE  ExactlyOnce'
  <2>1. InTask' = InTask
    BY <1>5 DEF DestroyCall, DestroyStep, DestroyLock, DestroyLockStale, DestroyAgain,
              DestroyShutdown, BroadcastThen, DestroyJoin, DestroyFree, InTask
  <2> QED BY <1>1, <1>5, <2>1 DEF DestroyCall, DestroyStep, DestroyLock, DestroyLockStale,
              DestroyAgain, DestroyShutdown, DestroyJoin, DestroyFree, history
<1>6. CASE UNCHANGED vars
  BY <1>1, <1>6 DEF vars, InTask, history
<1> QED BY <1>2, <1>3, <1>4, <1>5, <1>6 DEF Next, Finished

\* Every accepted task is handed to exactly one worker and run at most once.
THEOREM ExactlyOnceAlways == Spec => []ExactlyOnce
<1>1. Init => ExactlyOnce
  BY ThreadFacts DEF Init, ExactlyOnce, InTask
<1> QED BY <1>1, OnceNext, TypesInvariant, LifeInvAlways, RingIsFifoAlways, PTL
        DEF Spec

-------------------------------------------------------------------------------
\* threadpool_free never pulls the pool from under a worker, a caller of
\* threadpool_add or a destroyer past its first lock; the only thread that can
\* still use it is another destroyer that was waiting for that lock.
THEOREM NoUseAfterFreeAlways == Spec => []NoUseAfterFree
<1>1. Types /\ LifeInv => NoUseAfterFree
  <2> SUFFICES ASSUME Types, LifeInv PROVE NoUseAfterFree
    OBVIOUS
  <2>1. ASSUME created # "no", "pool" \notin heap
        PROVE  /\ Live = {}
               /\ \A c \in Clients : pc[c] = "idle"
               /\ \A d \in Destroyers : pc[d] \notin {"crit", "join"}
               /\ shutdown # 0 => heap = {} /\ ~mutexInit /\ ~condInit
    <3>1. Live = {}
      BY <2>1 DEF LifeInv, HeapInv, Live
    <3>2. pc[Owner] # "idle" \/ shutdown # 0
      BY <2>1 DEF LifeInv, HeapInv
    <3>3. \A c \in Clients : pc[c] = "idle"
      BY <3>2, ThreadFacts DEF LifeInv, CreateInv
    <3>4. \A d \in Destroyers : pc[d] \notin {"crit", "join"}
      BY <2>1 DEF LifeInv, HeapInv
    <3>5. shutdown # 0 => heap = {} /\ ~mutexInit /\ ~condInit
      BY <2>1 DEF LifeInv, HeapInv
    <3> QED BY <3>1, <3>3, <3>4, <3>5
  <2>2. OvertakenInv
    BY DEF LifeInv
  <2> QED BY <2>1, <2>2 DEF NoUseAfterFree, OvertakenInv
<1> QED BY <1>1, TypesInvariant, LifeInvAlways, PTL

\* Every call gives pool->lock back, but for a second threadpool_destroy, which
\* leaves a pool that is never freed.
THEOREM LockGivenBackAlways == Spec => []LockGivenBack
<1>1. LifeInv => LockGivenBack
  BY DEF LifeInv
<1> QED BY <1>1, LifeInvAlways, PTL

\* A graceful shutdown frees the pool only after every accepted task has been
\* run to its end.
THEOREM GracefulDrainsAlways == Spec => []GracefulDrains
<1>1. Types /\ LifeInv /\ RingIsFifo /\ ExactlyOnce => GracefulDrains
  <2> SUFFICES ASSUME Types, LifeInv, RingIsFifo, ExactlyOnce,
                      shutdown = graceful_shutdown, "pool" \notin heap
               PROVE  done = 1 .. submitted
    BY DEF GracefulDrains
  <2>1. created = "ready" /\ thread_count = ThreadCount
    BY DEF LifeInv, CreateInv, BirthInv
  <2>2. \A w \in Workers : pc[w] = "dead"
    BY <2>1, ThreadFacts, ArgumentsAccepted
    DEF LifeInv, HeapInv, BirthInv, CreateInv, Creating
  <2>3. count = 0
    BY <2>2, ThreadFacts, ArgumentsAccepted
    DEF LifeInv, ExitInv, MustExit, immediate_shutdown, graceful_shutdown
  <2>4. InTask = {}
    BY <2>2 DEF InTask
  <2>5. done = 1 .. taken
    BY <2>4 DEF ExactlyOnce
  <2>6. taken = submitted
    BY <2>3 DEF RingIsFifo, Types, LocalType
  <2> QED BY <2>5, <2>6
<1> QED BY <1>1, TypesInvariant, LifeInvAlways, RingIsFifoAlways,
           ExactlyOnceAlways, PTL

\* No worker is left sleeping in pthread_cond_wait by a shutdown.
THEOREM NoSleeperAtShutdownAlways == Spec => []NoSleeperAtShutdown
<1>1. LifeInv => NoSleeperAtShutdown
  BY DEF LifeInv, ExitInv, NoSleeperAtShutdown, Waiting
<1> QED BY <1>1, LifeInvAlways, PTL

\* The shutdown flag is set once, and nothing is accepted after it.
THEOREM ShutdownIsFinalAlways == Spec => ShutdownIsFinal
<1>1. [Next]_vars => [shutdown # 0 => shutdown' = shutdown
                                      /\ submitted' = submitted]_vars
  BY DEF Next, CreateStep, CreateAlloc, CreateErr, CreateHang, CreateThread, CreateCount,
         CreateFail, CreateReturn, AddCall, AddStep, AddLock, AddReject, AddAccept,
         WorkerStep, WorkerLock, WorkerWait, WorkerTake, WorkerReturn,
         WorkerExit, SpuriousWakeup, DestroyCall, DestroyStep, DestroyLock, DestroyLockStale,
         DestroyAgain, DestroyShutdown, DestroyJoin, DestroyFree, Finished, vars,
         history
<1> QED BY <1>1, PTL DEF Spec, ShutdownIsFinal

-------------------------------------------------------------------------------
(***************************************************************************)
(* Counting the workers.                                                   *)
(***************************************************************************)
StartedInv ==
  started = Cardinality(Live) - (IF pc[Owner] = "count" THEN 1 ELSE 0)

\* The workers are finitely many, and so is any set of them.
LEMMA WorkersFinite ==
  /\ IsFiniteSet(Workers) /\ Cardinality(Workers) = ThreadCount
  /\ \A S \in SUBSET Workers : /\ IsFiniteSet(S) /\ Cardinality(S) \in Nat
                               /\ Cardinality(S) <= ThreadCount
<1>1. IsFiniteSet(Workers) /\ Cardinality(Workers) = ThreadCount
  BY ArgumentsAccepted, FS_Interval DEF Workers
<1>2. ASSUME NEW S \in SUBSET Workers
      PROVE  IsFiniteSet(S) /\ Cardinality(S) \in Nat /\ Cardinality(S) <= ThreadCount
  BY <1>1, FS_Subset, FS_CardinalityType
<1> QED BY <1>1, <1>2

\* How each step changes the sets of running and of sleeping workers.
LEMMA LiveSteps ==
  ASSUME Types, LifeInv, [Next]_vars
  PROVE  \/ /\ Live' = Live /\ Waiting' = Waiting
            /\ count' <= count
            /\ \/ UNCHANGED started /\ (pc'[Owner] = "count" <=> pc[Owner] = "count")
               \/ CreateCount
         \/ CreateThread
         \/ \E a \in Clients \cup Workers : AddAccept(a)
         \/ \E w \in Workers : WorkerWait(w) \/ WorkerExit(w) \/ SpuriousWakeup(w)
         \/ \E d \in Destroyers : DestroyShutdown(d)
<1> USE ThreadFacts DEF Types, PcType, PoolType, LocalType, Live, Waiting
<1>1. CASE CreateStep
  BY <1>1 DEF CreateStep, CreateAlloc, CreateErr, CreateHang, CreateCount, CreateFail,
              CreateReturn, ring, counters
<1>2. ASSUME NEW a \in Clients \cup Workers, AddCall(a) \/ AddLock(a) \/ AddReject(a)
      PROVE  /\ Live' = Live /\ Waiting' = Waiting /\ count' = count
             /\ UNCHANGED started /\ pc'[Owner] = pc[Owner]
  BY <1>2 DEF AddCall, AddLock, AddReject, AddReturn, ring, counters
<1>3. ASSUME NEW w \in Workers, WorkerLock(w) \/ WorkerTake(w) \/ WorkerReturn(w)
      PROVE  /\ Live' = Live /\ Waiting' = Waiting /\ count' <= count
             /\ UNCHANGED started /\ pc'[Owner] = pc[Owner]
  BY <1>3, SMTT(30) DEF WorkerLock, WorkerTake, WorkerReturn, ring, counters
<1>4. ASSUME NEW d \in Destroyers,
             DestroyCall(d) \/ DestroyLock(d) \/ DestroyLockStale(d) \/ DestroyAgain(d)
             \/ DestroyJoin(d) \/ DestroyFree(d)
      PROVE  /\ Live' = Live /\ Waiting' = Waiting /\ count' = count
             /\ UNCHANGED started /\ (pc'[Owner] = "count" <=> pc[Owner] = "count")
  BY <1>4 DEF DestroyCall, DestroyLock, DestroyLockStale, DestroyAgain, DestroyJoin, DestroyFree,
              ring, counters
<1>5. CASE UNCHANGED vars
  BY <1>5 DEF vars, ring, counters
<1> QED BY <1>1, <1>2, <1>3, <1>4, <1>5
        DEF Next, AddStep, WorkerStep, DestroyStep, Finished

LEMMA StartedNext ==
  Types /\ LifeInv /\ StartedInv /\ [Next]_vars => StartedInv'
<1> SUFFICES ASSUME Types, LifeInv, StartedInv, [Next]_vars PROVE StartedInv'
  OBVIOUS
<1> USE ThreadFacts DEF StartedInv, Types, PcType
<1>0. Live \in SUBSET Workers /\ IsFiniteSet(Live) /\ Cardinality(Live) \in Nat
  BY WorkersFinite DEF Live
<1>1. CASE /\ Live' = Live
           /\ UNCHANGED started /\ (pc'[Owner] = "count" <=> pc[Owner] = "count")
  BY <1>1
<1>2. CASE CreateCount
  <2>1. Live' = Live
    BY <1>2 DEF CreateCount, Live
  <2> QED BY <1>0, <1>2, <2>1 DEF CreateCount
<1>3. CASE CreateThread
  <2>1. thread_count \in Workers /\ pc[thread_count] = "unborn"
    BY <1>3 DEF CreateThread, LifeInv, BirthInv, PoolType
  <2>2. Live' = Live \cup {thread_count} /\ thread_count \notin Live
    BY <1>3, <2>1 DEF CreateThread, Live
  <2>3. Cardinality(Live') = Cardinality(Live) + 1
    BY <1>0, <2>2, FS_AddElement
  <2> QED BY <1>0, <1>3, <2>1, <2>3 DEF CreateThread, counters
<1>4. ASSUME NEW w \in Workers, WorkerExit(w) PROVE StartedInv'
  <2>1. Live' = Live \ {w} /\ w \in Live
    BY <1>4 DEF WorkerExit, Live
  <2>2. Cardinality(Live') = Cardinality(Live) - 1
    BY <1>0, <2>1, FS_RemoveElement
  <2> QED BY <1>0, <1>4, <2>2 DEF WorkerExit
<1>5. ASSUME NEW a \in Clients \cup Workers, AddAccept(a) PROVE StartedInv'
  <2>1. Live' = Live /\ pc'[Owner] = pc[Owner]
    BY <1>5 DEF AddAccept, AddReturn, SignalThen, Waiting, Live
  <2> QED BY <1>1, <1>5, <2>1 DEF AddAccept, counters
<1>6. ASSUME NEW w \in Workers, WorkerWait(w) \/ SpuriousWakeup(w) PROVE StartedInv'
  <2>1. Live' = Live /\ pc'[Owner] = pc[Owner]
    BY <1>6 DEF WorkerWait, SpuriousWakeup, Live
  <2> QED BY <1>1, <1>6, <2>1 DEF WorkerWait, SpuriousWakeup, counters
<1>7. ASSUME NEW d \in Destroyers, DestroyShutdown(d) PROVE StartedInv'
  <2>1. Live' = Live /\ (pc'[Owner] = "count" <=> pc[Owner] = "count")
    BY <1>7 DEF DestroyShutdown, BroadcastThen, Live
  <2> QED BY <1>1, <1>7, <2>1 DEF DestroyShutdown, counters
<1> QED BY <1>1, <1>2, <1>3, <1>4, <1>5, <1>6, <1>7, LiveSteps

LEMMA StartedInvAlways == Spec => []StartedInv
<1>1. Init => StartedInv
  <2> SUFFICES ASSUME Init PROVE StartedInv
    OBVIOUS
  <2>1. Live = {}
    BY ThreadFacts DEF Init, Live
  <2> QED BY <2>1, ThreadFacts, FS_EmptySet DEF Init, StartedInv
<1> QED BY <1>1, StartedNext, TypesInvariant, LifeInvAlways, PTL DEF Spec

\* pool->started counts the running threads exactly.
THEOREM StartedIsLiveAlways == Spec => []StartedIsLive
<1>1. StartedInv => StartedIsLive
  <2>1. Live \in SUBSET Workers
    BY DEF Live
  <2> QED BY <2>1, WorkersFinite DEF StartedInv, StartedIsLive
<1> QED BY <1>1, StartedInvAlways, PTL

\* Every field of the pool, every index and every counter stays in range.
THEOREM TypeOKAlways == Spec => []TypeOK
<1>1. Types /\ LifeInv /\ RingIsFifo /\ ExactlyOnce /\ StartedInv => TypeOK
  <2> SUFFICES ASSUME Types, LifeInv, RingIsFifo, ExactlyOnce, StartedInv
               PROVE  TypeOK
    OBVIOUS
  <2>1. Live \in SUBSET Workers /\ Cardinality(Live) \in Nat
        /\ Cardinality(Live) <= ThreadCount
    BY WorkersFinite DEF Live
  <2>2. pc[Owner] = "count" => Cardinality(Live) >= 1
    <3> SUFFICES ASSUME pc[Owner] = "count" PROVE Cardinality(Live) >= 1
      OBVIOUS
    <3>1. thread_count \in Live
      BY ThreadFacts, ArgumentsAccepted DEF Types, PoolType, CountType, LifeInv,
             BirthInv, CreateInv, Creating, Live
    <3>2. Live # {} /\ IsFiniteSet(Live)
      BY <3>1, <2>1, WorkersFinite
    <3> QED BY <2>1, <3>2, FS_EmptySet
  <2>3. started \in 0 .. ThreadCount
    BY <2>1, <2>2, ArgumentsAccepted DEF StartedInv
  <2>4. done \subseteq 1 .. submitted
    BY DEF ExactlyOnce, RingIsFifo, Types, PoolType, LocalType
  <2> QED BY <2>3, <2>4 DEF TypeOK
<1> QED BY <1>1, TypesInvariant, LifeInvAlways, RingIsFifoAlways,
           ExactlyOnceAlways, StartedInvAlways, PTL

LEMMA WakeupsNext ==
  Types /\ LifeInv /\ WakeupsSuffice /\ [Next]_vars => WakeupsSuffice'
<1> DEFINE Awake == Live \ Waiting
<1> SUFFICES ASSUME Types, LifeInv, WakeupsSuffice, [Next]_vars, Waiting' # {}
             PROVE  count' <= Cardinality(Awake')
  BY DEF WakeupsSuffice
<1> USE ThreadFacts DEF Types, PcType, PoolType
<1>0. Awake \in SUBSET Workers /\ IsFiniteSet(Awake) /\ Cardinality(Awake) \in Nat
  BY WorkersFinite DEF Live
<1>1. CASE Live' = Live /\ Waiting' = Waiting /\ count' <= count
  <2>1. count' \in Int
    BY PoolTypeNext
  <2> QED BY <1>0, <1>1, <2>1 DEF WakeupsSuffice
<1>2. ASSUME NEW w \in Workers, w \notin Awake, Awake' = Awake \cup {w},
             Waiting # {}, count' <= count + 1, count' \in Int
      PROVE  count' <= Cardinality(Awake')
  <2>1. Cardinality(Awake') = Cardinality(Awake) + 1
    BY <1>0, <1>2, FS_AddElement
  <2> QED BY <1>0, <1>2, <2>1 DEF WakeupsSuffice
<1>3. CASE CreateThread
  <2>1. thread_count \in Workers /\ pc[thread_count] = "unborn"
    BY <1>3 DEF CreateThread, LifeInv, BirthInv
  <2>2. /\ Awake' = Awake \cup {thread_count} /\ thread_count \notin Awake
        /\ Waiting' = Waiting
    BY <1>3, <2>1 DEF CreateThread, Live, Waiting
  <2>3. PICK w \in Workers : w = thread_count
    BY <2>1
  <2>4. /\ Awake' = Awake \cup {w} /\ w \notin Awake /\ Waiting # {}
        /\ count' <= count + 1 /\ count' \in Int
    BY <1>3, <2>2, <2>3 DEF CreateThread, ring
  <2> QED BY <1>2, <2>4
<1>4. ASSUME NEW a \in Clients \cup Workers, AddAccept(a)
      PROVE  count' <= Cardinality(Awake')
  <2>1. CASE Waiting = {}
    BY <1>4, <2>1 DEF AddAccept, AddReturn, SignalThen, Waiting
  <2>2. CASE Waiting # {}
    <3>1. PICK w \in Waiting : pc' = [pc EXCEPT ![a] = AddReturn(a), ![w] = "woken"]
      BY <1>4, <2>2 DEF AddAccept, SignalThen
    <3>2. w \in Workers /\ w \notin Awake /\ Awake' = Awake \cup {w}
      BY <1>4, <3>1 DEF AddAccept, AddReturn, Waiting, Live
    <3> QED BY <1>2, <1>4, <2>2, <3>2 DEF AddAccept
  <2> QED BY <2>1, <2>2
<1>5. ASSUME NEW w \in Workers, SpuriousWakeup(w)
      PROVE  count' <= Cardinality(Awake')
  <2>1. w \notin Awake /\ Awake' = Awake \cup {w} /\ Waiting # {}
    BY <1>5 DEF SpuriousWakeup, Waiting, Live
  <2> QED BY <1>2, <1>5, <2>1 DEF SpuriousWakeup, ring
<1>6. ASSUME NEW w \in Workers, WorkerWait(w)
      PROVE  count' <= Cardinality(Awake')
  <2>1. count' = 0
    BY <1>6 DEF WorkerWait, ring
  <2>2. Awake' \in SUBSET Workers
    BY DEF Live
  <2> QED BY <2>1, <2>2, WorkersFinite
<1>7. ASSUME NEW w \in Workers, WorkerExit(w) PROVE FALSE
  BY <1>7 DEF WorkerExit, MustExit, immediate_shutdown, graceful_shutdown,
              LifeInv, ExitInv, Waiting
<1>8. ASSUME NEW d \in Destroyers, DestroyShutdown(d) PROVE FALSE
  BY <1>8 DEF DestroyShutdown, BroadcastThen, Waiting
<1> QED BY <1>1, <1>3, <1>4, <1>5, <1>6, <1>7, <1>8, LiveSteps

\* While a worker sleeps there are as many workers awake as tasks pending:
\* one pthread_cond_signal per threadpool_add is enough.
THEOREM WakeupsSufficeAlways == Spec => []WakeupsSuffice
<1>1. Init => WakeupsSuffice
  BY ThreadFacts DEF Init, WakeupsSuffice, Waiting
<1> QED BY <1>1, WakeupsNext, TypesInvariant, LifeInvAlways, PTL DEF Spec

-------------------------------------------------------------------------------
(***************************************************************************)
(* The pool implements TaskService: every step of the pool is a step of    *)
(* TaskService under the refinement mapping, or leaves its variables alone.*)
(***************************************************************************)
PoolInv == Types /\ LifeInv /\ RingIsFifo /\ ExactlyOnce

LEMMA PoolInvAlways == Spec => []PoolInv
BY TypesInvariant, LifeInvAlways, RingIsFifoAlways, ExactlyOnceAlways, PTL DEF PoolInv

\* The pending tasks are those accepted and not taken, in order.
PendingOK ==
  /\ Pending = [k \in 1 .. count |-> taken + k]
  /\ Pending \in Seq(Nat) /\ Len(Pending) = count
  /\ count \in Nat /\ taken \in Nat /\ submitted = taken + count

LEMMA PendingFacts == PoolInv => PendingOK
<1> SUFFICES ASSUME Types, RingIsFifo PROVE PendingOK
  BY DEF PoolInv
<1>1. count \in Nat /\ taken \in Nat /\ submitted = taken + count
  BY DEF Types, PoolType, LocalType, RingIsFifo
<1>2. \A k \in 1 .. count : queue[Slot(k - 1)] = taken + k
  <2> TAKE k \in 1 .. count
  <2>1. k - 1 \in 0 .. count - 1
    BY <1>1
  <2>2. queue[Slot(k - 1)] = taken + (k - 1) + 1
    BY <2>1 DEF RingIsFifo
  <2> QED BY <1>1, <2>2
<1>3. Pending = [k \in 1 .. count |-> taken + k]
  BY <1>2 DEF Pending
<1>4. Pending \in Seq(Nat) /\ Len(Pending) = count
  <2> DEFINE s == [k \in 1 .. count |-> taken + k]
  <2>1. s \in Seq(Nat) /\ Len(s) = count
    BY <1>1
  <2> QED BY <1>3, <2>1
<1> QED BY <1>1, <1>3, <1>4 DEF PendingOK

\* threadpool_add accepts a task: Submit.
LEMMA AcceptSubmits ==
  ASSUME PoolInv, PoolInv', NEW a \in Clients \cup Workers, AddAccept(a)
  PROVE  Service!Submit
<1>1. PendingOK /\ count \in Nat /\ taken \in Nat
  BY PendingFacts DEF PendingOK
<1>2. PendingOK'
  BY PendingFacts, PTL
<1>3. /\ count < QueueSize /\ shutdown = 0 /\ shutdown' = 0
      /\ count' = count + 1 /\ taken' = taken /\ submitted' = submitted + 1
      /\ UNCHANGED <<done, wtask>>
  <2>1. count # QueueSize /\ count \in 0 .. QueueSize /\ QueueSize \in Nat
    BY ArgumentsAccepted DEF AddAccept, PoolInv, Types, PoolType
  <2> QED BY <2>1 DEF AddAccept
<1>4. Pending' = Append(Pending, submitted + 1)
  BY <1>1, <1>2, <1>3 DEF PendingOK
<1>5. InTask' = InTask
  BY ThreadFacts DEF AddAccept, SignalThen, Waiting, AddReturn, InTask, PoolInv, Types, PcType
<1>6. Running' = Running
  BY <1>3, <1>5 DEF Running
<1>7. Mode = "open" /\ Mode' = "open"
  BY <1>3 DEF Mode
<1>8. Len(Pending) < QueueSize
  BY <1>1, <1>3 DEF PendingOK
<1> QED BY <1>3, <1>4, <1>6, <1>7, <1>8 DEF Service!Submit

\* A worker takes a task: Start.  Fewer than ThreadCount tasks run, since this
\* worker runs none.
LEMMA TakeStarts ==
  ASSUME PoolInv, PoolInv', NEW w \in Workers, WorkerTake(w)
  PROVE  Service!Start
<1>1. PendingOK /\ count \in Nat /\ taken \in Nat
  BY PendingFacts DEF PendingOK
<1>2. PendingOK'
  BY PendingFacts, PTL
<1>3. /\ count > 0 /\ count' = count - 1 /\ taken' = taken + 1
      /\ wtask' = [wtask EXCEPT ![w] = queue[head]]
      /\ shutdown \in {0, graceful_shutdown}
      /\ UNCHANGED <<heap, shutdown, done, submitted>>
  BY DEF WorkerTake, MustExit, immediate_shutdown, graceful_shutdown, PoolInv, Types,
         PoolType, mem
<1>4. Pending # <<>> /\ Head(Pending) = taken + 1 /\ Pending' = Tail(Pending)
  <2>1. Pending # <<>> /\ Head(Pending) = taken + 1
    BY <1>1, <1>3 DEF PendingOK
  <2>2. Tail(Pending) = [k \in 1 .. count - 1 |-> Pending[k + 1]]
    BY <1>1, <1>3 DEF PendingOK
  <2>3. \A k \in 1 .. count - 1 : Pending[k + 1] = taken' + k
    BY <1>1, <1>3 DEF PendingOK
  <2>4. Pending' = [k \in 1 .. count - 1 |-> taken' + k]
    BY <1>2, <1>3 DEF PendingOK
  <2> QED BY <2>1, <2>2, <2>3, <2>4
<1>5. queue[head] = taken + 1
  <2>1. 0 \in 0 .. count - 1
    BY <1>1, <1>3
  <2>2. Slot(0) = head
    BY ArgumentsAccepted DEF Slot, PoolInv, Types, PoolType
  <2>3. queue[Slot(0)] = taken + 0 + 1
    BY <2>1 DEF PoolInv, RingIsFifo
  <2> QED BY <1>1, <2>2, <2>3
<1>6. InTask' = InTask \cup {w} /\ w \notin InTask /\ InTask \subseteq Workers
  BY ThreadFacts DEF WorkerTake, InTask, PoolInv, Types, PcType
<1>7. Running' = Running \cup {Head(Pending)}
  <2>1. wtask'[w] = taken + 1 /\ \A v \in InTask : wtask'[v] = wtask[v]
    BY <1>3, <1>5, <1>6 DEF PoolInv, Types, LocalType
  <2> QED BY <1>4, <1>6, <2>1 DEF Running
<1>8. Cardinality(Running) < ThreadCount
  <2>1. IsFiniteSet(Workers) /\ Cardinality(Workers) = ThreadCount
    <3>1. 0 \in Int /\ ThreadCount - 1 \in Int /\ ~(0 > ThreadCount - 1)
          /\ (ThreadCount - 1) - 0 + 1 = ThreadCount
      BY ArgumentsAccepted
    <3> QED BY <3>1, FS_Interval DEF Workers
  <2>2. /\ IsFiniteSet(Workers \ {w})
        /\ Cardinality(Workers \ {w}) = ThreadCount - 1
    BY <2>1, FS_RemoveElement
  <2>3. /\ IsFiniteSet(InTask) /\ Cardinality(InTask) <= ThreadCount - 1
    BY <1>6, <2>2, FS_Subset
  <2>4. IsFiniteSet(Running) /\ Cardinality(Running) <= Cardinality(InTask)
    <3> DEFINE f == [v \in InTask |-> wtask[v]]
    <3>1. f \in Surjection(InTask, Running)
      BY DEF Running, Surjection
    <3> HIDE DEF f
    <3> QED BY <2>3, <3>1, FS_Surjection
  <2>5. Cardinality(Running) \in Nat /\ Cardinality(InTask) \in Nat
    BY <2>3, <2>4, FS_CardinalityType
  <2> QED BY <2>3, <2>4, <2>5, ArgumentsAccepted
<1>9. Mode \in {"open", "draining"} /\ Mode' = Mode
  <2>1. shutdown # 0 => "pool" \in heap
    BY DEF PoolInv, LifeInv, HeapInv, CreateInv, WorkerTake
  <2> QED BY <1>3, <2>1 DEF Mode, graceful_shutdown
<1>10. UNCHANGED <<done, submitted, Mode>>
  BY <1>3, <1>9
<1>11. Service!Cardinality(Running) < ThreadCount
  BY <1>8, Zenon DEF Service!Cardinality, Cardinality
<1> QED BY <1>4, <1>7, <1>9, <1>10, <1>11 DEF Service!Start

\* A task's function returns: Finish.
LEMMA ReturnFinishes ==
  ASSUME PoolInv, NEW w \in Workers, WorkerReturn(w)
  PROVE  Service!Finish
<1>1. /\ InTask' = InTask \ {w} /\ w \in InTask /\ done' = done \cup {wtask[w]}
      /\ UNCHANGED <<heap, ring, shutdown, wtask, submitted>>
  BY ThreadFacts DEF WorkerReturn, InTask, PoolInv, Types, PcType, mem
<1>2. Running' = Running \ {wtask[w]} /\ wtask[w] \in Running
  BY <1>1 DEF Running, PoolInv, ExactlyOnce
<1>3. Pending' = Pending /\ Mode' = Mode
  BY <1>1 DEF Pending, Slot, Mode, ring
<1>4. /\ Running' = Running \ {wtask[w]} /\ wtask[w] \in Running
      /\ done' = done \cup {wtask[w]} /\ UNCHANGED <<Pending, submitted, Mode>>
  BY <1>1, <1>2, <1>3
<1> QED BY <1>4 DEF Service!Finish

\* threadpool_destroy sets the flag: Shutdown.
LEMMA FlagShutsDown ==
  ASSUME PoolInv, NEW d \in Destroyers, DestroyShutdown(d)
  PROVE  Service!Shutdown
<1>1. /\ shutdown = 0 /\ shutdown' \in {immediate_shutdown, graceful_shutdown}
      /\ UNCHANGED <<heap, ring, wtask, done, submitted>>
  BY DEF DestroyShutdown, mem, history
<1>2. InTask' = InTask
  BY ThreadFacts DEF DestroyShutdown, BroadcastThen, InTask, PoolInv, Types, PcType
<1>3. Running' = Running /\ Pending' = Pending
  BY <1>1, <1>2 DEF Running, Pending, Slot, ring
<1>4. "pool" \in heap
  BY DEF PoolInv, LifeInv, HeapInv, DestroyShutdown
<1>5. Mode = "open" /\ Mode' \in {"draining", "stopping"}
  BY <1>1, <1>4 DEF Mode, immediate_shutdown, graceful_shutdown
<1> QED BY <1>1, <1>3, <1>5 DEF Service!Shutdown

\* The pool is freed: Close.  Every thread has been joined, so no task runs,
\* and after a graceful shutdown none is pending.
LEMMA FreeCloses ==
  ASSUME PoolInv, NEW d \in Destroyers, DestroyFree(d), ~(started > 0)
  PROVE  Service!Close
<1>1. /\ pc[d] = "join" /\ shutdown # 0 /\ "pool" \in heap
      /\ created # "no" /\ pc[Owner] \notin Creating
  BY DEF DestroyFree, PoolInv, LifeInv, JoinInv, HeapInv, CreateInv
<1>2. /\ heap' = {} /\ UNCHANGED <<ring, shutdown, wtask, done, submitted>>
  BY <1>1 DEF DestroyFree, threadpool_free, AfterFree, PoolInv, LifeInv, HeapInv,
              Creating, pool, locals, history
<1>3. \A w \in Workers : pc[w] \in {"dead", "unborn"}
  <2> TAKE w \in Workers
  <2>1. CASE w < thread_count
    <3>1. w \in 0 .. joined[d] - 1
      BY <2>1, ThreadFacts DEF DestroyFree, Workers, PoolInv, Types, PoolType
    <3> QED BY <1>1, <3>1 DEF PoolInv, LifeInv, JoinInv
  <2>2. CASE w >= thread_count
    BY <1>1, <2>2 DEF PoolInv, LifeInv, BirthInv, Creating
  <2> QED BY <2>1, <2>2, ArgumentsAccepted DEF Workers, PoolInv, Types, PoolType
<1>4. Running = {} /\ Running' = {}
  <2>1. InTask = {} /\ InTask' = {}
    BY <1>3, ThreadFacts DEF InTask, DestroyFree, PoolInv, Types, PcType
  <2> QED BY <2>1 DEF Running
<1>5. Pending' = Pending
  BY <1>2 DEF Pending, Slot, ring
<1>6. shutdown = graceful_shutdown => Pending = <<>>
  <2> SUFFICES ASSUME shutdown = graceful_shutdown PROVE Pending = <<>>
    OBVIOUS
  <2>1. thread_count = ThreadCount /\ pc[Owner] # "count"
    BY <1>1 DEF PoolInv, LifeInv, CreateInv, BirthInv, Creating
  <2>2. pc[0] = "dead"
    <3>1. 0 \in Workers /\ ~(0 >= thread_count)
      BY <2>1, ArgumentsAccepted DEF Workers
    <3> QED BY <1>3, <3>1 DEF PoolInv, LifeInv, BirthInv
  <2>3. count = 0
    BY <2>2, ArgumentsAccepted
    DEF PoolInv, LifeInv, ExitInv, MustExit, immediate_shutdown,
        graceful_shutdown, Workers
  <2> QED BY <2>3 DEF Pending
<1>7. Mode' = "closed" /\ Mode \in {"draining", "stopping"}
      /\ (Mode = "draining" => Pending = <<>>)
  BY <1>1, <1>2, <1>6 DEF Mode
<1>8. UNCHANGED <<Pending, Running, done, submitted>>
  BY <1>2, <1>4, <1>5
<1> QED BY <1>4, <1>7, <1>8 DEF Service!Close

\* What TaskService sees of a state does not depend on the lock, the program
\* counters outside the tasks, or the counters of threads.
LEMMA Unseen ==
  ASSUME UNCHANGED <<ring, wtask, done, submitted, shutdown>>, InTask' = InTask,
         Mode' = Mode
  PROVE  UNCHANGED Service!svars
<1>1. Pending' = Pending /\ Running' = Running
  BY DEF Pending, Slot, Running, ring
<1> QED BY <1>1 DEF Service!svars

LEMMA CreateUnseen ==
  ASSUME PoolInv, CreateStep PROVE UNCHANGED Service!svars
<1> USE ThreadFacts DEF PoolInv, Types, PcType
<1>1. UNCHANGED <<ring, wtask, done, submitted, shutdown>>
  BY DEF CreateStep, CreateAlloc, CreateErr, CreateHang, CreateThread, CreateCount,
         CreateFail, CreateReturn, pool, locals, history
<1>2. InTask' = InTask
  <2>1. CASE CreateThread
    <3>1. thread_count \in Workers /\ pc[thread_count] = "unborn"
      BY <2>1 DEF CreateThread, LifeInv, BirthInv, PoolType
    <3> QED BY <2>1, <3>1 DEF CreateThread, InTask
  <2>2. CASE ~CreateThread
    BY <2>2 DEF CreateStep, CreateAlloc, CreateErr, CreateHang, CreateCount, CreateFail,
                CreateReturn, InTask
  <2> QED BY <2>1, <2>2
<1>3. shutdown = 0
  BY DEF CreateStep, CreateAlloc, CreateErr, CreateHang, CreateThread, CreateCount,
         CreateFail, CreateReturn, LifeInv, CreateInv, Creating
<1>4. Mode' = Mode
  BY <1>1, <1>3 DEF Mode
<1> QED BY <1>1, <1>2, <1>4, Unseen

\* The steps of a call that do not change what is pending or running.
LEMMA AddUnseen ==
  ASSUME PoolInv, NEW a \in Clients \cup Workers,
         AddCall(a) \/ AddLock(a) \/ AddReject(a)
  PROVE  UNCHANGED Service!svars
<1> USE ThreadFacts DEF PoolInv, Types, PcType
<1>1. InTask' = InTask
  BY DEF AddCall, AddLock, AddReject, AddReturn, InTask
<1>2. UNCHANGED <<ring, wtask, done, submitted, shutdown, heap>>
  BY DEF AddCall, AddLock, AddReject, pool, mem, locals, history
<1>3. Mode' = Mode
  BY <1>2 DEF Mode
<1> QED BY <1>1, <1>2, <1>3, Unseen

LEMMA WorkerUnseen ==
  ASSUME PoolInv, NEW w \in Workers,
         \/ WorkerLock(w) \/ WorkerWait(w) \/ WorkerExit(w) \/ SpuriousWakeup(w)
  PROVE  UNCHANGED Service!svars
<1> USE ThreadFacts DEF PoolInv, Types, PcType
<1>1. InTask' = InTask
  BY DEF WorkerLock, WorkerWait, WorkerExit, SpuriousWakeup, InTask
<1>2. UNCHANGED <<ring, wtask, done, submitted, shutdown, heap>>
  BY DEF WorkerLock, WorkerWait, WorkerExit, SpuriousWakeup, pool, mem, locals,
         history
<1>3. Mode' = Mode
  BY <1>2 DEF Mode
<1> QED BY <1>1, <1>2, <1>3, Unseen

LEMMA DestroyUnseen ==
  ASSUME PoolInv, NEW d \in Destroyers,
         \/ DestroyCall(d) \/ DestroyLock(d) \/ DestroyLockStale(d) \/ DestroyAgain(d) \/ DestroyJoin(d)
         \/ DestroyFree(d) /\ started > 0
  PROVE  UNCHANGED Service!svars
<1> USE ThreadFacts DEF PoolInv, Types, PcType
<1>1. InTask' = InTask
  BY DEF DestroyCall, DestroyLock, DestroyLockStale, DestroyAgain, DestroyJoin, DestroyFree, InTask
<1>2. UNCHANGED <<ring, wtask, done, submitted, shutdown, heap>>
  BY DEF DestroyCall, DestroyLock, DestroyLockStale, DestroyAgain, DestroyJoin, DestroyFree,
         threadpool_free, pool, mem, locals, history
<1>3. Mode' = Mode
  BY <1>2 DEF Mode
<1> QED BY <1>1, <1>2, <1>3, Unseen

LEMMA PoolStep ==
  PoolInv /\ PoolInv' /\ [Next]_vars => [Service!Next]_Service!svars
<1> SUFFICES ASSUME PoolInv, PoolInv', [Next]_vars
             PROVE  Service!Next \/ UNCHANGED Service!svars
  OBVIOUS
<1>1. CASE CreateStep
  BY <1>1, CreateUnseen
<1>2. ASSUME NEW a \in Clients \cup Workers, AddCall(a) \/ AddStep(a)
      PROVE  Service!Next \/ UNCHANGED Service!svars
  BY <1>2, AcceptSubmits, AddUnseen DEF AddStep, Service!Next
<1>3. ASSUME NEW w \in Workers, WorkerStep(w) \/ SpuriousWakeup(w)
      PROVE  Service!Next \/ UNCHANGED Service!svars
  BY <1>3, TakeStarts, ReturnFinishes, WorkerUnseen DEF WorkerStep, Service!Next
<1>4. ASSUME NEW d \in Destroyers, DestroyCall(d) \/ DestroyStep(d)
      PROVE  Service!Next \/ UNCHANGED Service!svars
  BY <1>4, FlagShutsDown, FreeCloses, DestroyUnseen DEF DestroyStep, Service!Next
<1>5. CASE UNCHANGED vars
  <2>1. /\ UNCHANGED <<ring, wtask, done, submitted, shutdown>> /\ InTask' = InTask
        /\ Mode' = Mode
    BY <1>5 DEF vars, mem, pool, locals, history, InTask, Mode
  <2> QED BY <2>1, Unseen
<1> QED BY <1>1, <1>2, <1>3, <1>4, <1>5 DEF Next, Finished

\* Through every interleaving of threadpool_create, threadpool_add,
\* threadpool_thread and threadpool_destroy, for every number of threads and
\* every queue size, the pool is the bounded FIFO service of TaskService.
THEOREM PoolImplementsTaskService == Spec => ImplementsTaskService
<1>1. Init => Service!Init
  BY ThreadFacts DEF Init, Service!Init, Pending, Running, InTask, Mode
<1> QED BY <1>1, PoolStep, PoolInvAlways, PTL
        DEF Spec, ImplementsTaskService, Service!Spec
===============================================================================
