\* testQueueArr.c has 5 slots; 4 wrap as well.  Four addresses: the node
\* without contents and three items.
SPECIFICATION AllSpec
CONSTANTS
  QLen = 4
  Values = {0, 1}
  Nodes = {n1, n2, n3, n4}
  Nil = Nil
  RecordLens <- Records1
  Header = 2
  RecordRoom = 2
  Capacity = 7
  KeepLens <- Lines1
  KeepRoom = 5
  Chunk = 3
  MaxIntr = 3
  FileLens <- Lines2
  FileRoom = 4
  N = 3
  Room = 3
  MaxSent = 7
INVARIANTS
  ListWellFormed
  TransfersExact
  IsRemainder
PROPERTIES
  ImplementsFifo
  LinkedImplementsFifo
  TransfersEnd
CHECK_DEADLOCK FALSE
