SPECIFICATION Spec
CONSTANTS
    Player = p
    Chunk = {c1, c2}
    Other = {o}
    Cell = {f}
    None = None
    ChunkCap = 1
    MaxQueue = 1
    MaxVersion = 2
    MaxEvents = 2
INVARIANTS
    TypeOK
    CaughtUpMirrors
PROPERTIES
    ShowsMoments
    TerrainArrives
