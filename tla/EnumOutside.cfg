SPECIFICATION Spec
CONSTANTS
  Decls = 4
  Holes = FALSE
  Faults = {}
  MaxStale = 0
  Zero = "0"
  Token <- MCToken
  Databases <- MCDatabases
INVARIANT EnumeratorsInEnum
CHECK_DEADLOCK FALSE
