SPECIFICATION Spec
CONSTANTS
    Player = {p1}
    Conn = {c1, c2}
    None = None
    Environments <- NoFault
PROPERTIES
    RespawnServed
