SPECIFICATION FairSpec
CONSTANTS
  PROCESSES = 2
  Pid = {p1, p2}
  Conn = {c1, c2, c3}
  SLOTS = 2
  EXITS = 1
INVARIANTS TypeOK Population SomeonePolls
PROPERTIES Replaced AllAccepted
CHECK_DEADLOCK FALSE
