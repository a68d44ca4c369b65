CONSTANTS
    Cluster = Cluster
    Worlds = {west, east}
    Chars = {ann}
    None = None
    MaxHandoffs = 2
    MaxKills = 2
SPECIFICATION MCSpec
INVARIANTS
    BusInv
PROPERTIES
    OnceAndInOrder
    BusHeals
CHECK_DEADLOCK FALSE
