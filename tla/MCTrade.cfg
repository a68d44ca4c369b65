SPECIFICATION MCSpec
CONSTANTS
  alice = alice
  bob = bob
  sword = sword
  potion = potion
  plain = plain
  refined = refined
  Players = {alice, bob}
  None = None
  Empty = Empty
  BagSize = 2
  ItemIds = {sword, potion}
  StackSize <- MCStackSize
  MaxStack = 2
  Opts = {plain, refined}
  Plain = plain
  Elemental = {}
  MaxGold = 1
  GoldBound = 3
  MaxEvents = 3
  MaxTrade = 2
  Tradeable = {sword, potion}
INVARIANTS
  StakesHaveLink
  JournalCurrent
PROPERTIES
  GoldConserved
  OffersFrozen
  ItemsConserved
CHECK_DEADLOCK FALSE
