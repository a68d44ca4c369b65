SPECIFICATION MCSpec
CONSTANTS
  ann = ann
  bob = bob
  a1 = a1
  a2 = a2
  b1 = b1
  stone = stone
  plain = plain
  fire = fire
  Empty = Empty
  NoRow = NoRow
  NoOne = NoOne
  BagSize = 1
  ItemIds = {stone}
  StackSize <- MCStackSize
  MaxStack = 2
  Opts = {plain, fire}
  Plain = plain
  Elemental = {fire}
  Chars = {ann, bob}
  Objects = {a1, a2, b1}
  CharOf <- MCCharOf
  Tabs = {1}
  ChestSize = 1
  MaxGold = 1
  Amounts = {1}
  MaxKills = 1
  MaxJoins = 3
  MaxOpen = 2
PROPERTIES
  FlushIsRedundant
  UnitsKept
  AccountSpec
CHECK_DEADLOCK FALSE
