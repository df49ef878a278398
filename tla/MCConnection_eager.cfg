SPECIFICATION FairSpec
CONSTANTS
  BUFFSIZE = 3
  CHUNKS = 1
  LIMIT = 5
  INTERACTIVE = FALSE
  NoFile = NoFile
INVARIANTS TypeOK Framing NothingLeftBehind
PROPERTY Ends
