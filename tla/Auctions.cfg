CONSTANTS
  anna = anna
  bert = bert
  cleo = cleo
  sword = sword
  Player = {anna, bert, cleo}
  Item = {sword}
  Purse <- MCPurse
  Owned <- MCOwned
  Offer <- MCOffer
  Price = {1, 2}
  MaxMoney = 3
  Deposit = 1
  CutPercent = 50
  LogTrade = TRUE
  MaxPending = 2
  MaxStops = 1
  NoPlayer = NoPlayer
  NoAuction = NoAuction
SPECIFICATION FairSpec
INVARIANTS
  TypeOK
  ItemsAreInOnePlace
  GoldIsConserved
PROPERTY
  ExpiredAuctionsEnd
CHECK_DEADLOCK FALSE
