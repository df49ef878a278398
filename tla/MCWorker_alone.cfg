\* The only worker: accept finds every connection poll has seen.  One of its
\* clients may reset its connection.
SPECIFICATION FairSpec
CONSTANTS
  MAX_EVENTS = 4
  PROCESSES = 1
  Client = {c1, c2}
  Abrupt = {c1}
  NoFd = NoFd
INVARIANT AcceptFinds
PROPERTY Served
