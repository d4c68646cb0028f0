SPECIFICATION Spec
CONSTANTS
  Decls = 5
  Holes = TRUE
  Faults = {"prepare", "parse", "step"}
  MaxStale = 1
  Zero = "0"
  Token <- MCToken
  Databases <- MCDatabases
INVARIANTS
  TypeOK
  StackIsPath
  TreeIsFromTables
  TreeIsComplete
  ResolveFinds
PROPERTY BuildEnds
CHECK_DEADLOCK FALSE
