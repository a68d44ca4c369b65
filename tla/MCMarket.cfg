SPECIFICATION MCSpec
CONSTANTS
  alice = alice
  bob = bob
  sword = sword
  potion = potion
  plain = plain
  refined = refined
  Players = {alice, bob}
  None = None
  Empty = Empty
  BagSize = 2
  ItemIds = {sword, potion}
  StackSize <- MCStackSize
  MaxStack = 2
  Opts = {plain, refined}
  Plain = plain
  Elemental = {}
  MaxGold = 3
  GoldBound = 3
  MaxEvents = 2
  MaxTrade = 1
  Tradeable = {sword}
  MaxListings = 1
  Costs = {2}
  IntBound = 4
INVARIANTS
  MarketInv
PROPERTIES
  SoldAtPrice
  SaleConserves
CHECK_DEADLOCK FALSE
