\* Three workers, a queue of two, two clients and tasks that add tasks, two
\* callers of threadpool_destroy, and everything in threadpool_create may fail.
SPECIFICATION Spec
CONSTANTS
  ThreadCount = 3
  QueueSize = 2
  Clients = {c1, c2}
  Destroyers = {d1, d2}
  Owner = d1
  NoThread = NoThread
  NoTask = NoTask
  Faults = {"pool", "threads", "queue", "mutex", "cond", "thread"}
  MaxCalls = 5
INVARIANTS
  TypeOK RingIsFifo ExactlyOnce StartedIsLive WakeupsSuffice NoSleeperAtShutdown
  NoUseAfterFree LockGivenBack GracefulDrains
PROPERTIES
  ShutdownIsFinal ImplementsTaskService
