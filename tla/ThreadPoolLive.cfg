\* Two workers, a queue of two, one client, one destroyer, weak fairness.
SPECIFICATION FairSpec
CONSTANTS
  ThreadCount = 2
  QueueSize = 2
  Clients = {c1}
  Destroyers = {d1}
  Owner = d1
  NoThread = NoThread
  NoTask = NoTask
  Faults = {"thread"}
  MaxCalls = 4
PROPERTIES
  TaskEventuallyRuns ShutdownCompletes
