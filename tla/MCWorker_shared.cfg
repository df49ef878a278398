\* One of two workers, with two slots for three clients.  The other worker takes
\* connections this one has seen.
SPECIFICATION Spec
CONSTANTS
  MAX_EVENTS = 4
  PROCESSES = 2
  Client = {c1, c2, c3}
  Abrupt = {}
  NoFd = NoFd
SYMMETRY ClientSymmetry
INVARIANTS TypeOK EmptysExact Covered Armed PolledReadReady SkipsNothing OverrunNeedsTwo
