SPECIFICATION Spec
CONSTANTS
  c1 = c1
  c2 = c2
  r1 = r1
  Compiler = {c1, c2}
  Reader = {r1}
  NUnits = 2
  NRows = 2
  NObjects = 2
  Faulty = {c2}
INVARIANTS NothingElseIsLost StoreIsCommittedUnits
PROPERTIES ImplementsUnitStore BuildEnds
CHECK_DEADLOCK FALSE
