SPECIFICATION MCSpec
CONSTANTS
  ann = ann
  bob = bob
  cat = cat
  None = None
  Players = {ann, bob, cat}
  red = red
  blue = blue
  Names = {red, blue}
  Ranks = {0, 1, 4}
  RankCap <- MCRankCap
  MaxMembers = 2
  Masks <- MCMasks
  MaxId = 2
  MaxWars = 0
  MaxCount = 0
  Backlog = 1
  MaxEvents = 2
SYMMETRY Interchangeable
INVARIANTS
  RegistrySane
  IdGuildIsOwn
  GuildsAreLed
  LeaversLocked
  StoredAsLive
  RanksSane
CHECK_DEADLOCK FALSE
