\* The socket pair holds one descriptor: the rest of a batch stays behind.
SPECIFICATION FairSpec
CONSTANTS
  cpu_num = 2
  MAXACCEPTSIZE = 2
  MAX_FD = 9
  IntSize = 2
  ChanCap = 2
  Granule = 2
  SendBufLen = 4
  RecvBuf = 4
  MaxConns = 2
  Errors = FALSE
PROPERTIES
  EveryConnectionRegistered
