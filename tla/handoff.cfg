SPECIFICATION Spec
CONSTANTS
    Player = {p}
    Tile = {t1, t2}
    None = None
    Demands = {"components", "player"}
    Environments <- MCEnvironments
    CacheMax = 2
    MaxChange = 1
    MaxHandoff = 3
INVARIANTS
    TypeOK
    OneBody
    NothingRewound
PROPERTIES
    FollowsTravels
    HandoffEnds
