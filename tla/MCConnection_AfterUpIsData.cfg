SPECIFICATION Spec
CONSTANTS
  BUFFSIZE = 4
  CHUNKS = 1
  LIMIT = 4
  INTERACTIVE = FALSE
  NoFile = NoFile
PROPERTY AfterUpIsData
