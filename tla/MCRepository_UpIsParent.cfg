SPECIFICATION Spec
CONSTANTS
  Name <- MCName
  NameOrder <- MCNameOrder
  Session = {s1}
  Lines <- MCUpLines
  Inode = {1}
  COMMANDS = 4
  Endless = {}
  BLOCKS = 0
  FULL = FALSE
  Hole = Hole
  Trees <- MCTrees
PROPERTY UpIsParent
