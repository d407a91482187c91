CONSTANTS
  corpse = corpse
  chest = chest
  sword = sword
  ring = ring
  Player = {p1, p2, p3}
  Founder = {p1, p2, p3}
  Source = {corpse, chest}
  Chest = {chest}
  Item = {sword, ring}
  SourceOf <- MCSourceOf
  MaxOpened = 1
  NoPlayer = NoPlayer
SPECIFICATION FairSpec
INVARIANTS
  TypeOK
  TotalsMatchVotes
  BlockedWhileRolled
  AwardsGoToTheBestVote
PROPERTY
  RollsEnd
