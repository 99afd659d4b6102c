SPECIFICATION Spec
CONSTANTS
    Entity = {e1, e2}
    Component = {c1, c2}
    v1 = v1
    v2 = v2
    flip = flip
    Value <- MCValue
    Mutation <- MCMutation
    Effect <- MCEffect
    Absent = Absent
    Untouched = Untouched
    MaxOps = 3
INVARIANTS
    TypeOK
    IndexExact
PROPERTIES
    ChangesetComplete
    ImplementsAbstract
SYMMETRY Symmetry
