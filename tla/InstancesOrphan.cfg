CONSTANTS
  p1 = p1
  p2 = p2
  p3 = p3
  alone = alone
  group = group
  Player = {p1, p2, p3}
  PartyOf <- MCPartyOf
  Party = {alone, group}
  Group = {group}
  Dungeon = {d1}
  Object = {o1, o2, o3}
  MaxId = 2
  MaxEvents = 2
  NULL = NULL
SPECIFICATION Spec
SYMMETRY MCSymmetry
INVARIANT InhabitedMapsAreRegistered
