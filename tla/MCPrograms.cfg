SPECIFICATION ProgramsSpec
CONSTANTS
  SLEEP_TIME = 3
  Second = 2
  MaxChanges = 2
  T1 = 4
  T2 = 2
  Size = 2
  Delay = 2
  Residue = 1
INVARIANTS
  
  NoFalseAlarm
  NoticedInTime
PROPERTIES
  SignalsServed
  EndNoticed
CHECK_DEADLOCK FALSE
