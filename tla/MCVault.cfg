SPECIFICATION MCSpec
CONSTANTS
  alice = alice
  bob = bob
  potion = potion
  gem = gem
  plain = plain
  refined = refined
  Players = {alice, bob}
  None = None
  Empty = Empty
  BagSize = 1
  ItemIds = {potion, gem}
  StackSize <- MCStackSize
  MaxStack = 2
  Opts = {plain, refined}
  Plain = plain
  Elemental = {}
  PenyaPower = {alice}
  ItemPower = {alice}
  Salary <- MCSalary
  MaxPurse = 2
  MaxPool = 3
  MaxGive = 2
  MaxGuildBank = 2
  GuildTable <- MCGuildTable
  GemPxp <- MCGemPxp
  Backlog = 2
  MaxEvents = 3
INVARIANTS
  VaultInv
PROPERTIES
  ChestAccounted
  PaidOncePerEvening
  PayrollReopens
