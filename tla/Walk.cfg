SPECIFICATION Spec
CONSTANTS
  Size = 4
  TU = 0
  NoDecl = NoDecl
  Nul = "NUL"
  Decl <- MCDecl
  Token <- MCToken
  Walks <- MCWalks
INVARIANTS TypeOK LeaveAsserts RowsNested Complete ScopeRestored RecordedOnce AccessInForce SymbolsMatch
PROPERTIES ImplementsNameStack WritesInTransaction Terminates
CHECK_DEADLOCK FALSE
