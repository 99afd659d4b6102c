SPECIFICATION Spec
CONSTANTS
    Tile = {t1}
    Coordinator = coord
    Sessions = 3
    StalledWrite = FALSE
    MaxDrops = 2
INVARIANTS
    TypeOK
    ConnectedIsRead
PROPERTIES
    EventuallyLinked
    QuietSummaryArrives
