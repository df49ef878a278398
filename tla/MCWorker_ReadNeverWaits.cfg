SPECIFICATION Spec
CONSTANTS
  MAX_EVENTS = 4
  PROCESSES = 1
  Client = {c1, c2}
  Abrupt = {c1, c2}
  NoFd = NoFd
SYMMETRY ClientSymmetry
INVARIANT ReadNeverWaits
