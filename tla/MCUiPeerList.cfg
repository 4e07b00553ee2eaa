CONSTANTS
    Calls = {c1, c2}
    Peers = {p1, p2}
    None = None
SPECIFICATION Spec
SYMMETRY Symmetry
INVARIANTS
    TypeOK
    ListIsRight
CHECK_DEADLOCK FALSE
