SPECIFICATION Spec
CONSTANTS
  i1 = i1
  i2 = i2
  Iterator = {i1, i2}
  Query <- MCQuery
  Row <- MCRow
  Single <- MCSingle
  NRows = 3
  MaxPath = 6
CONSTRAINT Bounded
SYMMETRY Iterators
INVARIANTS InBuffer Resolved
PROPERTIES ImplementsIteratorBase
