SPECIFICATION Spec
CONSTANTS
  BUFFSIZE = 4
  CHUNKS = 1
  LIMIT = 6
  INTERACTIVE = TRUE
  NoFile = NoFile
PROPERTY ImplementsSession
