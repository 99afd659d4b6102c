SPECIFICATION Spec
CONSTANTS
    Player = {p}
    Tile = {t1, t2}
    None = None
    Demands = {"components"}
    Environments <- NoEvent
    CacheMax = 2
    MaxChange = 2
    MaxHandoff = 3
PROPERTY Crosses
