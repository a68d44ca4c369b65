SPECIFICATION MCSpec
CONSTANTS
  sword = sword
  stone = stone
  plain = plain
  fire = fire
  Empty = Empty
  None = None
  BagSize = 2
  ItemIds = {sword, stone}
  StackSize <- MCStackSize
  MaxStack = 2
  Opts = {plain, fire}
  Plain = plain
  Elemental = {fire}
  MaxParts = 2
  PartOf <- MCPartOf
  Upgrades <- MCUpgrades
  Fragile <- MCFragile
  Sockets = {s1, s2}
  Letters = {m1}
  MaxCalls = 2
  Mailed <- MCMailed
  MaxEvents = 2
SYMMETRY Connections
INVARIANTS
  SessionInv
  MailboxShown
PROPERTIES
  BagSpec
CHECK_DEADLOCK FALSE
