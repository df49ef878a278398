SPECIFICATION FairSpec
CONSTANTS
  Name <- MCName
  NameOrder <- MCNameOrder
  Session = {s1, s2}
  Lines <- MCLines
  Inode = {1, 2, 3}
  COMMANDS = 3
  Endless <- MCEndless
  BLOCKS = 1
  FULL = TRUE
  Hole = Hole
  Trees <- MCTrees
INVARIANTS TypeOK Inside
PROPERTIES StaysInGoal RmdirRemoves UploadIntact DownloadIntact CommandsEnd
