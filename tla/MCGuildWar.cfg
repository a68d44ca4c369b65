SPECIFICATION MCSpec
CONSTANTS
  ann = ann
  bob = bob
  cat = cat
  None = None
  red = red
  blue = blue
  Players = {ann, bob, cat}
  Names = {red, blue}
  Ranks = {0, 4}
  RankCap <- MCRankCap
  MaxMembers = 3
  Masks = {}
  MaxId = 2
  MaxWars = 2
  MaxCount = 1
  Backlog = 1
  MinTarget = 1
  Duration = 0
  MaxEvents = 1
INVARIANTS
  WarInv
  SidesFrozen
PROPERTIES
  WarsEnd
CHECK_DEADLOCK FALSE
