SPECIFICATION MCSpec
CONSTANTS
  sword = sword
  stone = stone
  plain = plain
  fire = fire
  Empty = Empty
  BagSize = 3
  ItemIds = {sword, stone}
  StackSize <- MCStackSize
  MaxStack = 2
  Opts = {plain, fire}
  Plain = plain
  Elemental = {fire}
  MaxParts = 2
  PartOf <- MCPartOf
  Upgrades <- MCUpgrades
  Fragile <- MCFragile
  MaxSteps = 6
INVARIANTS
  RowsCurrent
  AddsAsPromised
CHECK_DEADLOCK FALSE
