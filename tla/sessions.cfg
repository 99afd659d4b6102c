SPECIFICATION Spec
CONSTANTS
    Player = {p1}
    Conn = {c1, c2, c3}
    None = None
    Environments <- Everything
INVARIANTS
    TypeOK
    RegistryExact
    BodiesAnswered
    DeathsExact
PROPERTIES
    HandoffOwnsBody
    PlainDepartedLeaves
