SPECIFICATION Spec
CONSTANTS
  maxConnections = 4
  reserveConn = 2
  MaxIdle = 1
  Fds = {4, 5}
  Backlog = 1
  Room = 1
  Resets = TRUE
  Callbacks = {"none", "inline", "thread"}
  HookStates = {"eIdle", "eWaitForRecvData", "eProcessingRequest", "eDataSending", "eUnrecoverableFailureOrEnd"}
  NDEBUG = TRUE
  SpawnFails = TRUE
INVARIANT TableAgrees
INVARIANT HookOwnsSlot
CHECK_DEADLOCK FALSE
