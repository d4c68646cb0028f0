SPECIFICATION Spec
CONSTANTS
  Size = 3
  TU = 0
  NoDecl = NoDecl
  Nul = "NUL"
  Decl <- MCDecl
  Token <- MCToken
  Walks <- AnonymousWalks
INVARIANT OnlyBodySkipped
CHECK_DEADLOCK FALSE
