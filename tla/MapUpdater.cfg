CONSTANTS
  continent = continent
  dungeon = dungeon
  raid = raid
  i1 = i1
  i2 = i2
  i3 = i3
  Base <- MCBase
  Parent <- MCParent
  Instance = {i1, i2, i3}
  Worker = {w1, w2}
  HighWater = 3
  NULL = NULL
SPECIFICATION FairSpec
CHECK_DEADLOCK FALSE
INVARIANTS
  TypeOK
  WorldThreadIsAlone
  PendingIsExact
  UpdatesAreExclusive
  OnlyLiveMapsAreUpdated
PROPERTIES ImplementsMapTick TicksEnd WorkersAreJoined
