SPECIFICATION ServerSpec
CONSTANTS
  MAX_CONNECT = 3
  Descriptors = 3
  QUEUE = 3
  Threads = {t1, t2}
  LINE = 3
  MaxData = 2
  Polite = TRUE
  BusyConnect = 1
  BusyDescriptors = 2
INVARIANT ListsAgree
PROPERTY PoliteAnswered
CHECK_DEADLOCK FALSE
