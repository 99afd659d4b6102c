SPECIFICATION Spec
CONSTANTS
    c1 = c1
    c2 = c2
    west = west
    east = east
    flat = flat
    dug = dug
    Chunk = {c1, c2}
    Spot = {west, east}
    Near <- MCNear
    Reach <- MCReach
    Terrain = {flat, dug}
    Edit <- MCEdit
    Fresh = flat
    Absent = Absent
    NoRow = NoRow
    Grace = 2
    SaveInterval = 1
    MaxPuts = 1
    MaxFailures = 1
INVARIANTS
    TypeOK
    TerrainKept
PROPERTIES
    FarUnload
    FollowsLedger
    TerrainFollows
