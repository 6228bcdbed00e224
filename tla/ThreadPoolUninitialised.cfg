\* Two workers; what threadpool_create calls before its loop may fail.
SPECIFICATION Spec
CONSTANTS
  ThreadCount = 2
  QueueSize = 1
  Clients = {c1}
  Destroyers = {d1}
  Owner = d1
  NoThread = NoThread
  NoTask = NoTask
  Faults = {"pool", "threads", "queue", "mutex", "cond"}
  MaxCalls = 2
INVARIANT
  InitialisedWhenFreed
