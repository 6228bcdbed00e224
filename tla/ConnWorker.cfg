\* Two workers, two descriptors, three connections: one descriptor is reused.
SPECIFICATION Spec
CONSTANTS
  Workers = {w1, w2}
  Fds = {1, 2}
  Period = 1
  Idle = 1
  Mintimer = 1
  Presend = 2
  MaxAccepts = 3
  Horizon = 2
SYMMETRY Symmetry
INVARIANTS
  OneTimerEach
  FreshOnReuse
  SingleOwner
