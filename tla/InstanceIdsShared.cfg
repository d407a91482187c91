CONSTANTS
  Chunk = 2
  WordBits = 4
  MaxId = 10
SPECIFICATION Spec
CHECK_DEADLOCK FALSE
INVARIANT NoIdShared
