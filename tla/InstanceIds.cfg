CONSTANTS
  Chunk = 2
  WordBits = 4
  MaxId = 10
SPECIFICATION Spec
INVARIANTS TypeOK NoIdSharedUnlessOverrun NextIsLowestFree
PROPERTY OverrunsAtChunks
