SPECIFICATION Spec
CONSTANTS
  Size = 3
  TU = 0
  NoDecl = NoDecl
  Nul = "NUL"
  Decl <- MCDecl
  Token <- MCToken
  Walks <- ElaboratedWalks
INVARIANT RecordsUnderWholeName
CHECK_DEADLOCK FALSE
