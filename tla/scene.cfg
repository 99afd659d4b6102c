SPECIFICATION Spec
CONSTANTS
    Entity = {e1, e2, e3, e4, player}
    Recreated = {player}
    None = None
SYMMETRY Symmetry
INVARIANTS
    TypeOK
    ChildIndexExact
PROPERTIES
    TeardownWhole
