SPECIFICATION MCSpec
CONSTANTS
  ann = ann
  bob = bob
  cat = cat
  dan = dan
  None = None
  Players = {ann, bob, cat, dan}
  MaxMembers = 3
  MaxId = 2
  MaxEvents = 2
  MaxOpen = 2
  Backlog = 1
INVARIANTS
  RosterSane
  IdPartyIsOwn
  StoredAsLive
PROPERTIES
  AuthorityKept
  InviteResolved
CHECK_DEADLOCK FALSE
