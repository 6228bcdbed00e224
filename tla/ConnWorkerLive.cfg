\* One worker, two descriptors, two connections, weak fairness.
SPECIFICATION FairSpec
CONSTANTS
  Workers = {w1}
  Fds = {1, 2}
  Period = 2
  Idle = 1
  Mintimer = 1
  Presend = 2
  MaxAccepts = 2
  Horizon = 3
PROPERTIES
  FinReleased
  TimersServed
