SPECIFICATION ReadingSpec
CONSTANTS
  MAX_CONNECTIONS = 4
  reserveConn = 2
  MaxIdle = 2
  Fds = {4, 5}
  Backlog = 1
  Room = 2
  Resets = TRUE
INVARIANT TableAgrees
PROPERTY LoopTurns
CHECK_DEADLOCK FALSE
