SPECIFICATION Spec
CONSTANTS
  Decls = 3
  Length = 2
  Nul = "NUL"
  Percent = "%"
  NamespaceLine = NamespaceLine
  NoResultLine = NoResultLine
  Faults = {"prefix"}
  Token <- MCToken
  Loc <- MCLoc
  Like <- MCLike
  Databases <- MCDatabases
  Queries <- MCQueries
INVARIANTS DescendsInScope
