SPECIFICATION Spec
CONSTANTS
  c1 = c1
  c2 = c2
  r1 = r1
  Compiler = {c1, c2}
  Reader = {r1}
  NUnits = 1
  NRows = 1
  NObjects = 2
  Faulty = {}
SYMMETRY Alike
INVARIANTS AssertsHold
CHECK_DEADLOCK FALSE
