SPECIFICATION Spec
CONSTANTS
    Player = {p1, p2}
    Chest = {c}
    Station = {s}
    tool = tool
    tome = tome
    Item <- MCItem
    Gear <- MCGear
    Tome <- MCTome
    Usable <- MCUsable
    Capacity = 2
    Stacks = 1
    MaxCommands = 2
INVARIANTS
    TypeOK
    OneHome
PROPERTIES
    DeadRefsScrubbed
    FollowsLedger
SYMMETRY Symmetry
