\* Sockets of two bytes for ints of two, or of eight.  accept and send may fail.
SPECIFICATION DispatchFairSpec
CONSTANTS
  cpu_num = 3
  MAXACCEPTSIZE = 2
  MAX_FD = 5
  IntSize = 2
  ChanCap = 2
  Granule = 1
  SendBufLen = 4
  RecvBuf = 3
  MaxConns = 5
  Errors = TRUE
  WholeCap = 8
  WholeConns = 4
INVARIANTS
  StreamWhole
  Conserved
  NoLostWakeup
  WholeRegistered
PROPERTY
  WholeReachesWorker
