SPECIFICATION Spec
CONSTANTS
  FDS = 2
  ADDRS = 2
  Called <- MCCalled
  MAXLINE = 4
  CAPACITY = 2
  TYPED = 5
INVARIANTS DialTypeOK NoLeak Blame FirstWorks Restored NotKilled StreamTypeOK InStep
PROPERTIES Answered Noticed
CHECK_DEADLOCK FALSE
