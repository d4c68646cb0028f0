SPECIFICATION CodecSpec
CONSTANTS
  Char <- MCChar
  QualType <- MCQualType
  Argument <- MCArgument
  Depth <- MCDepth
  MaxDepth = 6
  Columns <- MCColumns
  Cached <- MCCached
  Declarations <- MCDeclarations
  Strays <- MCStrays
INVARIANTS CacheHonest PartsAreOlder OnlyBuiltinShared SplitIsPieces RoundTrip NeverRaises
PROPERTIES ReadingEnds
CHECK_DEADLOCK FALSE
